---- MODULE Spec2Model ----
(***************************************************************************)
(* Model of src/ai-copilot/fallback_system.py: the CircuitBreaker state    *)
(* machine and the FallbackSystem (component registry, failure history,    *)
(* guarded execution with fallbacks, automatic recovery chains).           *)
(*                                                                         *)
(* The program runs on a single-threaded cooperative scheduler (asyncio):  *)
(* code between two awaits of an external callable is one atomic step, and *)
(* every await of an external callable (the wrapped operation, a fallback, *)
(* a recovery callable, asyncio.sleep) is a point where other tasks run.   *)
(***************************************************************************)
EXTENDS Integers, Sequences, FiniteSets, Bags, TLC

VARIABLES
    now,          \* datetime.now(), in seconds since the start
    cb,           \* a stand-alone CircuitBreaker (as built in test_fallback_system)
    cb_pending,   \* calls of cb.call suspended in "await func()"
    cb_obs,       \* observer of cb.call: what the last step of a call did
    components,        \* FallbackSystem.components: name -> ComponentState
    circuit_breakers,  \* FallbackSystem.circuit_breakers: name -> CircuitBreaker
    failure_history,   \* FallbackSystem.failure_history: list of FailureEvent
    execs,        \* bag of execute_with_fallback calls suspended in an await
    tasks,        \* bag of _attempt_recovery tasks (scheduled, awaiting, sleeping)
    exec_obs,     \* observer of execute_with_fallback: how the last call ended
    monitor,      \* the task running _health_monitoring_loop
    closed,       \* observer of close: whether close() has returned
    observers,    \* on_failure, on_recovery, on_failover: whether one is attached
    notifying,    \* bag of calls suspended in "await self.on_...(...)"
    call_obs,     \* observer of trigger_failover and of the calls that notified
                  \* an observer: how the last one ended
    metrics_obs   \* observer of the metrics operations: what the last one returned

cbvars == <<cb, cb_pending, cb_obs>>
monvars == <<monitor, closed>>
obsvars == <<observers, notifying, call_obs>>
sysdata == <<components, circuit_breakers, failure_history, execs, tasks, exec_obs>>
metvars == <<metrics_obs>>
sysvars == <<sysdata, monvars, obsvars, metvars>>
vars == <<now, cb, cb_pending, cb_obs,
          components, circuit_breakers, failure_history, execs, tasks, exec_obs,
          monitor, closed, observers, notifying, call_obs, metrics_obs>>

-----------------------------------------------------------------------------
(* Bounds of the model *)

MaxTicks == 3             \* the clock advances MaxTicks times
ClockStep == 60           \* seconds between two observations of the clock
MaxPending == 2           \* overlapping calls on one breaker
MaxFailureThreshold == 3  \* failure_threshold is drawn from 1..MaxFailureThreshold
MaxSuccessThreshold == 2  \* success_threshold is drawn from 1..MaxSuccessThreshold
MaxExecs == 2             \* overlapping execute_with_fallback calls
MaxFallbacks == 2         \* length of the fallback list of a call
MaxRequests == 4          \* guarded calls counted per component
MaxHistory == 3           \* length of failure_history
MaxChains == 2            \* recovery chains started where their sleeps are followed
MaxNotifying == 1         \* calls suspended in the await of an observer
MaxFailovers == 2         \* failovers counted per component
MaxEvents == 4            \* length of failure_history where the uptime is computed
MaxScored == 1            \* guarded calls made where the metrics are computed
MaxFailing == 6           \* length of failure_history where calls follow one another

(* Program constants *)

max_recovery_attempts == 3
failover_timeout == 60
health_check_interval == 30
DefaultFailureThreshold == 5
DefaultRecoveryTimeout == 60
DefaultSuccessThreshold == 3

None == -1                \* Python's None for an optional timestamp (timestamps are >= 0)

-----------------------------------------------------------------------------
(* CircuitBreaker *)

CircuitBreakerState == {"CLOSED", "OPEN", "HALF_OPEN"}

\* CircuitBreaker.__init__
CircuitBreaker(failure_threshold, recovery_timeout, success_threshold) ==
    [ failure_threshold |-> failure_threshold,
      recovery_timeout  |-> recovery_timeout,
      success_threshold |-> success_threshold,
      state             |-> "CLOSED",
      failure_count     |-> 0,
      success_count     |-> 0,
      last_failure_time |-> None ]

\* CircuitBreaker._should_attempt_reset at time t
_should_attempt_reset(b, t) ==
    IF b.last_failure_time = None
    THEN TRUE
    ELSE (t - b.last_failure_time) >= b.recovery_timeout

\* _record_failure with the threshold compared by > instead of >=
M_record_failure_gt(b, t) ==
    LET b1 == [b EXCEPT !.failure_count = @ + 1, !.last_failure_time = t]
    IN  IF b1.failure_count > b1.failure_threshold
        THEN [b1 EXCEPT !.state = "OPEN"]
        ELSE b1

\* CircuitBreaker._record_failure at time t
_record_failure(b, t) ==
    LET b1 == [b EXCEPT !.failure_count = @ + 1, !.last_failure_time = t]
    IN  IF b1.failure_count >= b1.failure_threshold
        THEN [b1 EXCEPT !.state = "OPEN"]
        ELSE b1

\* _reset that leaves success_count as the probes left it
M_reset_keeps_success_count(b) ==
    [b EXCEPT !.state = "CLOSED",
              !.failure_count = 0,
              !.last_failure_time = None]

\* CircuitBreaker._reset
_reset(b) ==
    [b EXCEPT !.state = "CLOSED", !.failure_count = 0,
              !.success_count = 0, !.last_failure_time = None]

\* call_gate that records a rejected call as one more failure
M_call_gate_counts_rejection(b, t) ==
    IF b.state = "OPEN"
    THEN IF _should_attempt_reset(b, t)
         THEN [breaker |-> [b EXCEPT !.state = "HALF_OPEN", !.success_count = 0],
               rejected |-> FALSE]
         ELSE [breaker |-> _record_failure(b, t), rejected |-> TRUE]
    ELSE [breaker |-> b, rejected |-> FALSE]

\* CircuitBreaker.call up to "await func()": the breaker after the gate, and
\* whether the gate raised "Circuit breaker is OPEN" instead of invoking func.
call_gate(b, t) ==
    IF b.state = "OPEN"
    THEN IF _should_attempt_reset(b, t)
         THEN [breaker |-> [b EXCEPT !.state = "HALF_OPEN", !.success_count = 0],
               rejected |-> FALSE]
         ELSE [breaker |-> b, rejected |-> TRUE]
    ELSE [breaker |-> b, rejected |-> FALSE]

\* call_returned with the success threshold compared by > instead of >=
M_call_returned_gt(b) ==
    IF b.state = "HALF_OPEN"
    THEN LET b1 == [b EXCEPT !.success_count = @ + 1]
         IN  IF b1.success_count > b1.success_threshold THEN _reset(b1) ELSE b1
    ELSE [b EXCEPT !.failure_count = 0]

\* CircuitBreaker.call after func returned a result
call_returned(b) ==
    IF b.state = "HALF_OPEN"
    THEN LET b1 == [b EXCEPT !.success_count = @ + 1]
         IN  IF b1.success_count >= b1.success_threshold THEN _reset(b1) ELSE b1
    ELSE [b EXCEPT !.failure_count = 0]

\* call_raised that does not record a failure on an OPEN breaker
M_call_raised_skips_open(b, t) ==
    IF b.state = "OPEN" THEN b ELSE _record_failure(b, t)

\* CircuitBreaker.call after func raised: the exception is re-raised
call_raised(b, t) == _record_failure(b, t)

-----------------------------------------------------------------------------
(* FallbackSystem: data *)

ComponentStatus == {"ACTIVE", "STANDBY", "FAILED", "RECOVERING", "MAINTENANCE"}

\* the names _initialize_critical_components registers (one of the seven)
CriticalComponents == {"binance_api"}

\* the names the operations are called with: the registered ones and one more
Names == CriticalComponents \cup {"test_component"}

\* ComponentState(name, STANDBY) with a default HealthMetrics; metadata holds
\* the optional callables, of which the model keeps whether they are attached.
\* Of HealthMetrics the model keeps the three counters and last_success,
\* which _calculate_component_health_score reads; last_failure, response_time
\* and uptime_percentage are written or left alone by the operations and read
\* by none of them, and last_check is only copied into the result of
\* get_system_health.
ComponentState ==
    [ status               |-> "STANDBY",
      consecutive_failures |-> 0,
      total_requests       |-> 0,
      successful_requests  |-> 0,
      last_success         |-> None,
      failover_count       |-> 0,
      recovery_attempts    |-> 0,
      health_check         |-> FALSE,
      recovery_func        |-> FALSE ]

\* FailureEvent(component, failure_type, timestamp, error_message, severity)
FailureEvent(component, failure_type, timestamp, severity) ==
    [ component       |-> component,
      failure_type    |-> failure_type,
      timestamp       |-> timestamp,
      severity        |-> severity,
      resolved        |-> FALSE,
      resolution_time |-> None ]

\* How an execute_with_fallback call ended: with a result (of the primary,
\* by = 0, or of fallback number by) or with an exception (value), after
\* invoking the callables of "invoked" (0 the primary, k the k-th fallback).
ExecObs(component, outcome, value, by, fallbacks, invoked) ==
    [ component |-> component, outcome |-> outcome, value |-> value,
      by |-> by, fallbacks |-> fallbacks, invoked |-> invoked ]

\* The task running _health_monitoring_loop: "none" before initialize has
\* created it, "scheduled" until it first runs, "checking" in
\* "await health_check_func()" for the component at position pos of the
\* iteration over components.items() (size is the length of the dict when the
\* iteration started), "notifying" in the await of the observer of the report
\* it makes for that component, "sleeping" in "await asyncio.sleep" until
\* wake, "ended" when an exception has left the loop.
MonitorTask(pc, pos, size, wake) ==
    [ pc |-> pc, pos |-> pos, size |-> size, wake |-> wake ]

\* the three optional callbacks of FallbackSystem, None after __init__
Observers == {"on_failure", "on_recovery", "on_failover"}

\* A call of operation op for component suspended in the await of its observer
Notification(op, component) == [ op |-> op, component |-> component ]

\* How a call ended: outcome is "returned" or the exception raised to the
\* caller, notified is what the observer it awaited did ("returned",
\* "raised", or "none" when no observer was called)
CallObs(op, component, outcome, notified) ==
    [ op |-> op, component |-> component, outcome |-> outcome,
      notified |-> notified ]

\* What a metrics operation returned: op is the operation, arg its argument
\* (the component of _calculate_component_health_score, the hours of
\* get_failure_report) and result the value returned
MetricsObs(op, arg, result) == [ op |-> op, arg |-> arg, result |-> result ]

\* FallbackSystem.__init__ and _initialize_critical_components
SysInit ==
    /\ components = [n \in CriticalComponents |-> ComponentState]
    /\ circuit_breakers =
           [n \in CriticalComponents |->
               CircuitBreaker(DefaultFailureThreshold, DefaultRecoveryTimeout,
                              DefaultSuccessThreshold)]
    /\ failure_history = <<>>
    /\ execs = EmptyBag
    /\ tasks = EmptyBag
    /\ exec_obs = ExecObs("none", "none", "none", 0, 0, <<>>)
    /\ monitor = MonitorTask("none", 0, 0, None)
    /\ closed = FALSE
    /\ observers = [o \in Observers |-> FALSE]
    /\ notifying = EmptyBag
    /\ call_obs = CallObs("none", "none", "none", "none")
    /\ metrics_obs = MetricsObs("none", "none", "none")

-----------------------------------------------------------------------------
(* FallbackSystem: operations on the registry and the failure history.      *)
(* S is the part of the state they change: components, failure_history and  *)
(* tasks (the tasks asyncio.create_task has scheduled).                     *)

Sys == [ components |-> components,
         failure_history |-> failure_history,
         tasks |-> tasks ]

\* the indices of the unresolved events of name
Unresolved(name) ==
    {i \in 1..Len(failure_history) :
        failure_history[i].component = name /\ ~failure_history[i].resolved}

\* A task running _attempt_recovery(name): created by create_task, it is
\* "scheduled" until it first runs, "recovering" in "await recovery_func()"
\* and "sleeping" in "await asyncio.sleep(failover_timeout)" until wake. The
\* task created after the sleep continues the chain: invoked counts the
\* calls of recovery_func made by the chain so far, up to one more than
\* max_recovery_attempts.
RecoveryTask(name) ==
    [ component |-> name, pc |-> "scheduled", wake |-> None, invoked |-> 0 ]

\* report_component_failure that sets consecutive_failures to 1
M_report_component_failure_sets_one(S, component_name, failure_type, severity, t) ==
    LET failure_event == FailureEvent(component_name, failure_type, t, severity)
        history == Append(S.failure_history, failure_event)
    IN  IF component_name \in DOMAIN S.components
        THEN [ components |->
                   [S.components EXCEPT ![component_name] =
                       [@ EXCEPT !.status = "FAILED",
                                 !.consecutive_failures = 1]],
               failure_history |-> history,
               tasks |-> S.tasks (+) SetToBag({RecoveryTask(component_name)}) ]
        ELSE [S EXCEPT !.failure_history = history]

\* FallbackSystem.report_component_failure (on_failure is None after __init__)
report_component_failure(S, component_name, failure_type, severity, t) ==
    LET failure_event == FailureEvent(component_name, failure_type, t, severity)
        history == Append(S.failure_history, failure_event)
    IN  IF component_name \in DOMAIN S.components
        THEN [ components |->
                   [S.components EXCEPT ![component_name] =
                       [@ EXCEPT !.status = "FAILED",
                                 !.consecutive_failures = @ + 1]],
               failure_history |-> history,
               tasks |-> S.tasks (+) SetToBag({RecoveryTask(component_name)}) ]
        ELSE [S EXCEPT !.failure_history = history]

\* FirstUnresolved that picks the most recent unresolved entry of the name
M_FirstUnresolved_latest(history, name) ==
    LET Matches == {i \in 1..Len(history) :
                       history[i].component = name /\ ~history[i].resolved}
    IN  IF Matches = {} THEN 0
        ELSE CHOOSE i \in Matches : \A j \in Matches : i >= j

\* FirstUnresolved that passes over the first unresolved entry of the name
\* when there is a second one
M_FirstUnresolved_second(history, name) ==
    LET Matches == {i \in 1..Len(history) :
                       history[i].component = name /\ ~history[i].resolved}
        first == CHOOSE i \in Matches : \A j \in Matches : i <= j
        Others == Matches \ {first}
    IN  IF Matches = {} THEN 0
        ELSE IF Others = {} THEN first
        ELSE CHOOSE i \in Others : \A j \in Others : i <= j

\* the index of the first entry of history that report_component_recovery's
\* loop marks (component == name and not resolved), 0 if there is none
FirstUnresolved(history, name) ==
    LET Matches == {i \in 1..Len(history) :
                       history[i].component = name /\ ~history[i].resolved}
    IN  IF Matches = {} THEN 0
        ELSE CHOOSE i \in Matches : \A j \in Matches : i <= j

\* report_component_recovery that also clears recovery_attempts
M_report_component_recovery_clears_attempts(S, component_name, t) ==
    IF component_name \in DOMAIN S.components
    THEN LET i == FirstUnresolved(S.failure_history, component_name)
         IN  [S EXCEPT
                 !.components[component_name] =
                     [@ EXCEPT !.status = "ACTIVE",
                               !.consecutive_failures = 0,
                               !.last_success = t,
                               !.recovery_attempts = 0],
                 !.failure_history =
                     IF i = 0 THEN @
                     ELSE [@ EXCEPT ![i] = [@ EXCEPT !.resolved = TRUE,
                                                     !.resolution_time = t]]]
    ELSE S

\* report_component_recovery that resolves the event and resets the count
\* but leaves the status
M_report_component_recovery_keeps_status(S, component_name, t) ==
    IF component_name \in DOMAIN S.components
    THEN LET i == FirstUnresolved(S.failure_history, component_name)
         IN  [S EXCEPT
                 !.components[component_name] =
                     [@ EXCEPT !.consecutive_failures = 0,
                               !.last_success = t],
                 !.failure_history =
                     IF i = 0 THEN @
                     ELSE [@ EXCEPT ![i] = [@ EXCEPT !.resolved = TRUE,
                                                     !.resolution_time = t]]]
    ELSE S

\* report_component_recovery that takes the event it resolves out of the list
M_report_component_recovery_drops(S, component_name, t) ==
    IF component_name \in DOMAIN S.components
    THEN LET i == FirstUnresolved(S.failure_history, component_name)
         IN  [S EXCEPT
                 !.components[component_name] =
                     [@ EXCEPT !.status = "ACTIVE",
                               !.consecutive_failures = 0,
                               !.last_success = t],
                 !.failure_history =
                     IF i = 0 THEN @
                     ELSE SubSeq(@, 1, i - 1) \o SubSeq(@, i + 1, Len(@))]
    ELSE S

\* FallbackSystem.report_component_recovery (on_recovery is None after __init__)
report_component_recovery(S, component_name, t) ==
    IF component_name \in DOMAIN S.components
    THEN LET i == FirstUnresolved(S.failure_history, component_name)
         IN  [S EXCEPT
                 !.components[component_name] =
                     [@ EXCEPT !.status = "ACTIVE",
                               !.consecutive_failures = 0,
                               !.last_success = t],
                 !.failure_history =
                     IF i = 0 THEN @
                     ELSE [@ EXCEPT ![i] = [@ EXCEPT !.resolved = TRUE,
                                                     !.resolution_time = t]]]
    ELSE S

\* _update_component_health whose success branch makes the component ACTIVE
M_update_component_health_activates(comps, component_name, success, t) ==
    IF component_name \notin DOMAIN comps
    THEN comps
    ELSE [comps EXCEPT ![component_name] =
             IF success
             THEN [@ EXCEPT !.total_requests = @ + 1,
                            !.successful_requests = @ + 1,
                            !.last_success = t,
                            !.consecutive_failures = 0,
                            !.status = "ACTIVE"]
             ELSE [@ EXCEPT !.total_requests = @ + 1,
                            !.consecutive_failures = @ + 1]]

\* _update_component_health whose success branch leaves consecutive_failures
M_update_component_health_keeps_failures(comps, component_name, success, t) ==
    IF component_name \notin DOMAIN comps
    THEN comps
    ELSE [comps EXCEPT ![component_name] =
             IF success
             THEN [@ EXCEPT !.total_requests = @ + 1,
                            !.successful_requests = @ + 1,
                            !.last_success = t]
             ELSE [@ EXCEPT !.total_requests = @ + 1,
                            !.consecutive_failures = @ + 1]]

\* FallbackSystem._update_component_health; success_rate and error_rate are
\* successful_requests / total_requests and its complement
_update_component_health(comps, component_name, success, t) ==
    IF component_name \notin DOMAIN comps
    THEN comps
    ELSE [comps EXCEPT ![component_name] =
             IF success
             THEN [@ EXCEPT !.total_requests = @ + 1,
                            !.successful_requests = @ + 1,
                            !.last_success = t,
                            !.consecutive_failures = 0]
             ELSE [@ EXCEPT !.total_requests = @ + 1,
                            !.consecutive_failures = @ + 1]]

\* register_component with the test "name not in self.components" left out
M_register_component_recreates(S, cbs, name, health_check_func, recovery_func) ==
    LET comps1 == [n \in DOMAIN S.components \cup {name} |->
                      IF n = name THEN ComponentState ELSE S.components[n]]
        cbs1 == [n \in DOMAIN cbs \cup {name} |->
                    IF n = name
                    THEN CircuitBreaker(DefaultFailureThreshold,
                                        DefaultRecoveryTimeout,
                                        DefaultSuccessThreshold)
                    ELSE cbs[n]]
        comps2 == IF health_check_func
                  THEN [comps1 EXCEPT ![name].health_check = TRUE] ELSE comps1
        comps3 == IF recovery_func
                  THEN [comps2 EXCEPT ![name].recovery_func = TRUE] ELSE comps2
    IN  [ components |-> comps3, circuit_breakers |-> cbs1 ]

\* FallbackSystem.register_component
register_component(S, cbs, name, health_check_func, recovery_func) ==
    LET comps1 == IF name \in DOMAIN S.components
                  THEN S.components
                  ELSE [n \in DOMAIN S.components \cup {name} |->
                           IF n = name THEN ComponentState ELSE S.components[n]]
        cbs1 == IF name \in DOMAIN S.components
                THEN cbs
                ELSE [n \in DOMAIN cbs \cup {name} |->
                         IF n = name
                         THEN CircuitBreaker(DefaultFailureThreshold,
                                             DefaultRecoveryTimeout,
                                             DefaultSuccessThreshold)
                         ELSE cbs[n]]
        comps2 == IF health_check_func
                  THEN [comps1 EXCEPT ![name].health_check = TRUE] ELSE comps1
        comps3 == IF recovery_func
                  THEN [comps2 EXCEPT ![name].recovery_func = TRUE] ELSE comps2
    IN  [ components |-> comps3, circuit_breakers |-> cbs1 ]

-----------------------------------------------------------------------------
(* FallbackSystem: the metrics. A float that is a quotient of integers is    *)
(* kept exact, as the pair of its numerator and its positive denominator.    *)

Ratio(num, den) == [ num |-> num, den |-> den ]

\* x <= y and x < y for two such quotients
RatioLeq(x, y) == x.num * y.den <= y.num * x.den
RatioLess(x, y) == x.num * y.den < y.num * x.den

\* x - y
RatioSub(x, y) == Ratio(x.num * y.den - y.num * x.den, x.den * y.den)

\* the smaller of the two, as Python's min(x, y) gives it
RatioMin(x, y) == IF RatioLess(y, x) THEN y ELSE x

\* max(0, min(100, x)) of lines 617 and 640
Clamp(x) ==
    LET low == IF RatioLess(x, Ratio(100, 1)) THEN x ELSE Ratio(100, 1)
    IN  IF RatioLess(Ratio(0, 1), low) THEN low ELSE Ratio(0, 1)

\* sorted(history, key=lambda x: x.timestamp): a stable sort, events of equal
\* timestamp keep their order in the list
SortedByTimestamp(history) ==
    LET Before(j, i) ==
            \/ history[j].timestamp < history[i].timestamp
            \/ history[j].timestamp = history[i].timestamp /\ j < i
        Rank(i) == Cardinality({j \in 1..Len(history) : Before(j, i)}) + 1
    IN  [k \in 1..Len(history) |->
            history[CHOOSE i \in 1..Len(history) : Rank(i) = k]]

\* DowntimeWalk that adds, for every resolved event, the time that event
\* itself stayed unresolved
RECURSIVE M_DowntimeWalk_own_duration(_, _, _, _)
M_DowntimeWalk_own_duration(events, k, downtime, current_downtime_start) ==
    IF k > Len(events)
    THEN downtime
    ELSE LET failure == events[k]
         IN  IF failure.resolved
             THEN M_DowntimeWalk_own_duration(events, k + 1,
                      downtime + (failure.resolution_time - failure.timestamp),
                      current_downtime_start)
             ELSE M_DowntimeWalk_own_duration(events, k + 1, downtime,
                                              current_downtime_start)

\* DowntimeWalk in which every unresolved event moves the start of the window
RECURSIVE M_DowntimeWalk_restarts(_, _, _, _)
M_DowntimeWalk_restarts(events, k, downtime, current_downtime_start) ==
    IF k > Len(events)
    THEN downtime
    ELSE LET failure == events[k]
         IN  IF ~failure.resolved
             THEN M_DowntimeWalk_restarts(events, k + 1, downtime, failure.timestamp)
             ELSE IF failure.resolved /\ current_downtime_start # None
             THEN M_DowntimeWalk_restarts(events, k + 1,
                      downtime + (failure.resolution_time - current_downtime_start),
                      None)
             ELSE M_DowntimeWalk_restarts(events, k + 1, downtime,
                                          current_downtime_start)

\* the loop of lines 608-613 from position k of the sorted events on, with
\* the downtime accumulated so far and the start of the open window (None
\* when no window is open): the downtime at the end of the walk
RECURSIVE DowntimeWalk(_, _, _, _)
DowntimeWalk(events, k, downtime, current_downtime_start) ==
    IF k > Len(events)
    THEN downtime
    ELSE LET failure == events[k]
         IN  IF ~failure.resolved /\ current_downtime_start = None
             THEN DowntimeWalk(events, k + 1, downtime, failure.timestamp)
             ELSE IF failure.resolved /\ current_downtime_start # None
             THEN DowntimeWalk(events, k + 1,
                      downtime + (failure.resolution_time - current_downtime_start),
                      None)
             ELSE DowntimeWalk(events, k + 1, downtime, current_downtime_start)

\* min(f.timestamp for f in history) of a history that is not empty
FirstEvent(history) ==
    LET Stamps == {history[i].timestamp : i \in 1..Len(history)}
    IN  CHOOSE m \in Stamps : \A n \in Stamps : m <= n

\* _calculate_uptime_percentage without the clamp of line 617
M_calculate_uptime_percentage_unclamped(history, t) ==
    IF history = <<>>
    THEN Ratio(100, 1)
    ELSE LET total_time == t - FirstEvent(history)
         IN  IF total_time <= 0
             THEN Ratio(100, 1)
             ELSE LET downtime == DowntimeWalk(SortedByTimestamp(history), 1, 0, None)
                  IN  Ratio((total_time - downtime) * 100, total_time)

\* FallbackSystem._calculate_uptime_percentage at time t
_calculate_uptime_percentage(history, t) ==
    IF history = <<>>
    THEN Ratio(100, 1)
    ELSE LET total_time == t - FirstEvent(history)
         IN  IF total_time <= 0
             THEN Ratio(100, 1)
             ELSE LET downtime == DowntimeWalk(SortedByTimestamp(history), 1, 0, None)
                  IN  Clamp(Ratio((total_time - downtime) * 100, total_time))

\* FallbackSystem._calculate_component_health_score at time t; success_rate
\* is successful_requests / total_requests once total_requests > 0
_calculate_component_health_score(component, t) ==
    IF component.total_requests = 0
    THEN IF component.status = "ACTIVE" THEN Ratio(100, 1) ELSE Ratio(0, 1)
    ELSE LET rate == Ratio(component.successful_requests * 100,
                           component.total_requests)
             failures == component.consecutive_failures
             score1 == IF failures > 0
                       THEN RatioSub(rate, RatioMin(Ratio(failures * 10, 1),
                                                    Ratio(50, 1)))
                       ELSE rate
             time_since_success == t - component.last_success
             score2 == IF component.last_success # None /\ time_since_success > 300
                       THEN RatioSub(score1, RatioMin(Ratio(time_since_success, 60),
                                                      Ratio(20, 1)))
                       ELSE score1
         IN  Clamp(score2)

\* sum of resolution_time - timestamp over the events at the indices of I
RECURSIVE ResolutionTimes(_, _)
ResolutionTimes(history, I) ==
    IF I = {} THEN 0
    ELSE LET i == CHOOSE j \in I : TRUE
         IN  (history[i].resolution_time - history[i].timestamp)
                 + ResolutionTimes(history, I \ {i})

\* FallbackSystem._calculate_average_resolution_time of the events at the
\* indices of I: statistics.mean over the resolved ones, None without any
_calculate_average_resolution_time(history, I) ==
    LET resolved_failures ==
            {i \in I : history[i].resolved /\ history[i].resolution_time # None}
    IN  IF resolved_failures = {}
        THEN None
        ELSE Ratio(ResolutionTimes(history, resolved_failures),
                   Cardinality(resolved_failures))

\* FallbackSystem.get_failure_report(hours) at time t; the two dicts have the
\* failure types and the component names of the window as their keys
get_failure_report(history, hours, t) ==
    LET cutoff_time == t - hours * 3600
        recent_failures ==
            {i \in 1..Len(history) : history[i].timestamp >= cutoff_time}
        Types == {history[i].failure_type : i \in recent_failures}
        Comps == {history[i].component : i \in recent_failures}
    IN  [ total_failures |-> Cardinality(recent_failures),
          failures_by_type |->
              [ft \in Types |->
                  Cardinality({i \in recent_failures : history[i].failure_type = ft})],
          failures_by_component |->
              [c \in Comps |->
                  Cardinality({i \in recent_failures : history[i].component = c})],
          unresolved_failures |->
              Cardinality({i \in recent_failures : ~history[i].resolved}),
          average_resolution_time |->
              _calculate_average_resolution_time(history, recent_failures) ]

\* get_system_health that reports HEALTHY only when every component is ACTIVE
M_get_system_health_by_active(comps) ==
    LET total_components == Cardinality(DOMAIN comps)
        failed_components ==
            Cardinality({n \in DOMAIN comps : comps[n].status = "FAILED"})
        active_components ==
            Cardinality({n \in DOMAIN comps : comps[n].status = "ACTIVE"})
        overall_status ==
            IF active_components = total_components THEN "HEALTHY"
            ELSE IF 2 * failed_components > total_components THEN "CRITICAL"
            ELSE "DEGRADED"
    IN  [ overall_status |-> overall_status,
          health_score |-> IF total_components > 0
                           THEN Ratio(active_components * 100, total_components)
                           ELSE Ratio(0, 1),
          total_components |-> total_components,
          active_components |-> active_components,
          failed_components |-> failed_components ]

\* get_system_health that reports CRITICAL from half of the components on
M_get_system_health_half_critical(comps) ==
    LET total_components == Cardinality(DOMAIN comps)
        failed_components ==
            Cardinality({n \in DOMAIN comps : comps[n].status = "FAILED"})
        active_components ==
            Cardinality({n \in DOMAIN comps : comps[n].status = "ACTIVE"})
        overall_status ==
            IF failed_components = 0 THEN "HEALTHY"
            ELSE IF 2 * failed_components >= total_components THEN "CRITICAL"
            ELSE IF failed_components > 0 THEN "DEGRADED"
            ELSE "HEALTHY"
    IN  [ overall_status |-> overall_status,
          health_score |-> IF total_components > 0
                           THEN Ratio(active_components * 100, total_components)
                           ELSE Ratio(0, 1),
          total_components |-> total_components,
          active_components |-> active_components,
          failed_components |-> failed_components ]

\* FallbackSystem.get_system_health: the counts, the health score and the
\* overall status; failed / total > 0.5 is compared as 2 * failed > total
get_system_health(comps) ==
    LET total_components == Cardinality(DOMAIN comps)
        failed_components ==
            Cardinality({n \in DOMAIN comps : comps[n].status = "FAILED"})
        active_components ==
            Cardinality({n \in DOMAIN comps : comps[n].status = "ACTIVE"})
        overall_status ==
            IF failed_components = 0 THEN "HEALTHY"
            ELSE IF 2 * failed_components > total_components THEN "CRITICAL"
            ELSE IF failed_components > 0 THEN "DEGRADED"
            ELSE "HEALTHY"
    IN  [ overall_status |-> overall_status,
          health_score |-> IF total_components > 0
                           THEN Ratio(active_components * 100, total_components)
                           ELSE Ratio(0, 1),
          total_components |-> total_components,
          active_components |-> active_components,
          failed_components |-> failed_components ]

-----------------------------------------------------------------------------
(* The clock *)

Tick ==
    /\ now < MaxTicks * ClockStep
    /\ now' = now + ClockStep
    /\ UNCHANGED <<cbvars, sysvars>>

-----------------------------------------------------------------------------
(* A stand-alone breaker with overlapping calls *)

\* What cb_obs records: the kind of the last step, the breaker state the
\* current run of failures started from and its length, and the number of
\* results returned in HALF_OPEN since the breaker last became HALF_OPEN.
CbObs(last, run_start, run_failures, probe_successes) ==
    [ last |-> last, run_start |-> run_start,
      run_failures |-> run_failures, probe_successes |-> probe_successes ]

InitCB ==
    /\ now = 0
    /\ \E ft \in 1..MaxFailureThreshold, st \in 1..MaxSuccessThreshold,
          rt \in {DefaultRecoveryTimeout, 2 * DefaultRecoveryTimeout} :
          cb = CircuitBreaker(ft, rt, st)
    /\ cb_pending = 0
    /\ cb_obs = CbObs("none", "CLOSED", 0, 0)
    /\ SysInit

\* breaker.call(func) from its start to "await func()" or to the raise of line 120
CB_CallBegin ==
    /\ cb_pending < MaxPending
    /\ LET g == call_gate(cb, now)
       IN  /\ cb' = g.breaker
           /\ cb_pending' = IF g.rejected THEN cb_pending ELSE cb_pending + 1
           /\ cb_obs' = [cb_obs EXCEPT
                 !.last = IF g.rejected THEN "rejected" ELSE "invoked",
                 !.probe_successes =
                     IF cb.state = "OPEN" /\ ~g.rejected THEN 0 ELSE @]
    /\ UNCHANGED <<now, sysvars>>

\* func returned: lines 125-132
CB_CallReturn ==
    /\ cb_pending > 0
    /\ cb' = call_returned(cb)
    /\ cb_pending' = cb_pending - 1
    /\ cb_obs' = [cb_obs EXCEPT !.last = "returned",
                                !.run_start = cb'.state,
                                !.run_failures = 0,
                                !.probe_successes =
                                    IF cb.state = "HALF_OPEN" THEN @ + 1 ELSE @]
    /\ UNCHANGED <<now, sysvars>>

\* func raised: lines 134-136
CB_CallRaise ==
    /\ cb_pending > 0
    /\ cb' = call_raised(cb, now)
    /\ cb_pending' = cb_pending - 1
    /\ cb_obs' = [cb_obs EXCEPT !.last = "raised", !.run_failures = @ + 1]
    /\ UNCHANGED <<now, sysvars>>

NextCB ==
    \/ CB_CallBegin
    \/ CB_CallReturn
    \/ CB_CallRaise
    \/ Tick

SpecCB == InitCB /\ [][NextCB]_vars

-----------------------------------------------------------------------------
(* Claims about the stand-alone breaker, checked under SpecCB *)

\* now - last_failure_time < recovery_timeout, for a breaker with a failure time
TimeoutPending(b) ==
    /\ b.last_failure_time # None
    /\ now - b.last_failure_time < b.recovery_timeout

\* C1: in a run of failing calls that started from CLOSED with no successful
\* call in between, the breaker is OPEN right after the failing call that
\* makes the run failure_threshold long (or longer), and while the run is
\* shorter the breaker is CLOSED with failure_count equal to the length of the
\* run; a successful call in CLOSED restarts the run with failure_count 0.
C1_ThresholdOpens ==
    cb_obs.run_start = "CLOSED" =>
        /\ (cb_obs.last = "raised" /\ cb_obs.run_failures >= cb.failure_threshold)
               => cb.state = "OPEN"
        /\ cb_obs.run_failures < cb.failure_threshold
               => (cb.state = "CLOSED" /\ cb.failure_count = cb_obs.run_failures)

\* C1 witness: a run of exactly failure_threshold (more than one) failures
\* from CLOSED has just opened the breaker.
C1_Witness ==
    /\ cb_obs.run_start = "CLOSED"
    /\ cb_obs.last = "raised"
    /\ cb.failure_threshold > 1
    /\ cb_obs.run_failures = cb.failure_threshold
    /\ cb.state = "OPEN"

\* C2: a call on an OPEN breaker whose recovery_timeout has not elapsed is
\* rejected without invoking the operation and leaves the breaker (state,
\* failure_count, success_count, last_failure_time) unchanged.
C2_OpenRejects ==
    [][ (CB_CallBegin /\ cb.state = "OPEN" /\ TimeoutPending(cb))
            => /\ cb_obs'.last = "rejected"
               /\ cb_pending' = cb_pending
               /\ cb' = cb ]_vars

\* C2 witness: a call has just been rejected by an OPEN breaker within the timeout.
C2_Witness ==
    /\ cb_obs.last = "rejected"
    /\ cb.state = "OPEN"
    /\ TimeoutPending(cb)
    /\ cb.failure_count > 0

\* C3: a call on an OPEN breaker whose recovery_timeout has elapsed makes it
\* HALF_OPEN with success_count 0 and invokes the operation; a result returned
\* in HALF_OPEN closes the breaker (failure_count 0, success_count 0,
\* last_failure_time cleared) when it is the success_threshold-th since the
\* breaker became HALF_OPEN, and leaves it HALF_OPEN when it is an earlier one.
C3_HalfOpenRecovery ==
    [][ /\ (CB_CallBegin /\ cb.state = "OPEN" /\ ~TimeoutPending(cb))
            => /\ cb'.state = "HALF_OPEN"
               /\ cb'.success_count = 0
               /\ cb_obs'.last = "invoked"
               /\ cb_pending' = cb_pending + 1
        /\ (CB_CallReturn /\ cb.state = "HALF_OPEN")
            => IF cb_obs'.probe_successes >= cb.success_threshold
               THEN /\ cb'.state = "CLOSED"
                    /\ cb'.failure_count = 0
                    /\ cb'.success_count = 0
                    /\ cb'.last_failure_time = None
               ELSE /\ cb'.state = "HALF_OPEN"
                    /\ cb'.success_count = cb_obs'.probe_successes ]_vars

\* C3 witness: the breaker has just been closed by the last of more than one
\* result returned in HALF_OPEN.
C3_Witness ==
    /\ cb_obs.last = "returned"
    /\ cb.state = "CLOSED"
    /\ cb.success_threshold > 1
    /\ cb_obs.probe_successes = cb.success_threshold
    /\ cb.last_failure_time = None

\* C4: a failing call in HALF_OPEN leaves the breaker OPEN with success_count
\* 0, and whenever the breaker is OPEN its success_count is 0.
C4_HalfOpenFailureOpens ==
    [][ /\ (CB_CallRaise /\ cb.state = "HALF_OPEN")
            => (cb'.state = "OPEN" /\ cb'.success_count = 0)
        /\ cb'.state = "OPEN" => cb'.success_count = 0 ]_vars

\* C20: when the operation of a call raises, in whatever state the breaker
\* is, the call ends by raising the operation's exception (cb_obs.last =
\* "raised", not the breaker's own rejection), with failure_count one higher
\* and last_failure_time the time of the failure; when the operation
\* returns, the call returns its result.
C20_CallPropagates ==
    [][ /\ CB_CallRaise =>
              /\ cb_obs'.last = "raised"
              /\ cb_pending' = cb_pending - 1
              /\ cb'.failure_count = cb.failure_count + 1
              /\ cb'.last_failure_time = now
        /\ CB_CallReturn =>
              /\ cb_obs'.last = "returned"
              /\ cb_pending' = cb_pending - 1 ]_vars

\* C20 witness: the operation of a call raised while the breaker was OPEN or
\* HALF_OPEN (failure_count was at the threshold already) and the failure is
\* recorded at a later time than the start.
C20_Witness ==
    /\ cb_obs.last = "raised"
    /\ cb.failure_count > cb.failure_threshold
    /\ cb.last_failure_time = now
    /\ now > 0

\* C23: a result returned by the operation of a call changes failure_count
\* only if the breaker is CLOSED at that moment (or HALF_OPEN and closed by
\* this result) and success_count only if it is HALF_OPEN, whatever calls
\* overlap; so whenever the breaker is OPEN or HALF_OPEN, failure_count is at
\* least failure_threshold.
C23_SuccessKeepsOpenCount ==
    [][ /\ CB_CallReturn =>
              /\ cb'.failure_count # cb.failure_count =>
                     \/ cb.state = "CLOSED"
                     \/ cb.state = "HALF_OPEN" /\ cb'.state = "CLOSED"
              /\ cb'.success_count # cb.success_count => cb.state = "HALF_OPEN"
        /\ cb'.state \in {"OPEN", "HALF_OPEN"} =>
              cb'.failure_count >= cb'.failure_threshold ]_vars

-----------------------------------------------------------------------------
(* FallbackSystem: the steps of its operations *)

Apply(S) ==
    /\ components' = S.components
    /\ failure_history' = S.failure_history
    /\ tasks' = S.tasks

Suspended == BagCardinality(execs)

\* register_component(name, health_check_func, recovery_func) called from
\* outside, each callable given or left None
RegisterComponentWith(name, health_check_func, recovery_func) ==
    LET R == register_component(Sys, circuit_breakers, name,
                                health_check_func, recovery_func)
    IN  /\ components' = R.components
        /\ circuit_breakers' = R.circuit_breakers
        /\ UNCHANGED <<now, cbvars, metvars, monvars, obsvars, failure_history, execs,
                       tasks, exec_obs>>

\* register_component(name, health_check_func, recovery_func) with both
\* callables, as _setup_backup_handlers and test_fallback_system call it
RegisterComponent(name) ==
    LET R == register_component(Sys, circuit_breakers, name, TRUE, TRUE)
    IN  /\ components' = R.components
        /\ circuit_breakers' = R.circuit_breakers
        /\ UNCHANGED <<now, cbvars, metvars, monvars, obsvars, failure_history, execs,
                       tasks, exec_obs>>

\* lines 272-274, 297-299 and 401-403: the operation op awaits its observer
\* when one is attached
Notify(observer, op, name) ==
    /\ notifying' = IF observers[observer]
                    THEN notifying (+) SetToBag({Notification(op, name)})
                    ELSE notifying
    /\ observers[observer] => BagCardinality(notifying) < MaxNotifying

\* report_component_failure called from outside (the default severity), to
\* its end or to the await of on_failure, while the history is shorter than
\* bound
ReportFailureWithin(name, bound) ==
    /\ Len(failure_history) + Suspended < bound
    /\ Apply(report_component_failure(Sys, name, "NETWORK_ERROR", "error", now))
    /\ Notify("on_failure", "report_component_failure", name)
    /\ UNCHANGED <<now, cbvars, metvars, monvars, observers, call_obs, circuit_breakers,
                   execs, exec_obs>>

\* report_component_failure called from outside
ReportFailure(name) == ReportFailureWithin(name, MaxHistory)

\* report_component_recovery called from outside, to its end or to the await
\* of on_recovery
ReportRecovery(name) ==
    /\ Apply(report_component_recovery(Sys, name, now))
    /\ Notify("on_recovery", "report_component_recovery", name)
    /\ UNCHANGED <<now, cbvars, metvars, monvars, observers, call_obs, circuit_breakers,
                   execs, exec_obs>>

\* trigger_failover with the check of the status left out
M_trigger_failover_any_status(comps, component_name) ==
    [comps EXCEPT ![component_name] =
        [@ EXCEPT !.status = "STANDBY", !.failover_count = @ + 1]]

\* FallbackSystem.trigger_failover for a registered name: lines 394-398
trigger_failover(comps, component_name) ==
    IF comps[component_name].status = "ACTIVE"
    THEN [comps EXCEPT ![component_name] =
             [@ EXCEPT !.status = "STANDBY", !.failover_count = @ + 1]]
    ELSE comps

\* trigger_failover(name) called from outside, to its end, to the raise of
\* line 392 or to the await of on_failover
TriggerFailover(name) ==
    /\ IF name \notin DOMAIN components
       THEN /\ call_obs' = CallObs("trigger_failover", name, "ValueError", "none")
            /\ UNCHANGED <<components, notifying>>
       ELSE /\ components[name].status = "ACTIVE"
                   => components[name].failover_count < MaxFailovers
            /\ components' = trigger_failover(components, name)
            /\ IF components[name].status = "ACTIVE"
               THEN /\ Notify("on_failover", "trigger_failover", name)
                    /\ call_obs' = IF observers["on_failover"] THEN call_obs
                                   ELSE CallObs("trigger_failover", name,
                                                "returned", "none")
               ELSE /\ notifying' = notifying
                    /\ call_obs' = CallObs("trigger_failover", name,
                                           "returned", "none")
    /\ UNCHANGED <<now, cbvars, metvars, monvars, observers, circuit_breakers,
                   failure_history, execs, tasks, exec_obs>>

\* an observer is attached (system.on_failure = ..., and so on)
SetObserver(o) ==
    /\ ~observers[o]
    /\ observers' = [observers EXCEPT ![o] = TRUE]
    /\ UNCHANGED <<now, cbvars, metvars, monvars, notifying, call_obs, sysdata>>

\* ObserverDone that lets the exception of the observer reach the caller
M_ObserverDone_propagates(c, result) ==
    /\ c \in BagToSet(notifying)
    /\ notifying' = notifying (-) SetToBag({c})
    /\ call_obs' = CallObs(c.op, c.component,
                           IF result = "raised" THEN "ObserverError" ELSE "returned",
                           result)
    /\ UNCHANGED <<now, cbvars, metvars, monvars, observers, sysdata>>

\* ObserverDone of a call that waits for the recovery callables of its
\* component to finish before it returns
M_ObserverDone_waits_recovery(c, result) ==
    /\ c \in BagToSet(notifying)
    /\ \A r \in BagToSet(tasks) : r.component = c.component => r.pc # "recovering"
    /\ notifying' = notifying (-) SetToBag({c})
    /\ call_obs' = CallObs(c.op, c.component, "returned", result)
    /\ UNCHANGED <<now, cbvars, metvars, monvars, observers, sysdata>>

\* the awaited observer returned or raised (lines 274-278, 299-303, 403-407):
\* its exception is caught and logged and the call returns
ObserverDone(c, result) ==
    /\ c \in BagToSet(notifying)
    /\ notifying' = notifying (-) SetToBag({c})
    /\ call_obs' = CallObs(c.op, c.component, "returned", result)
    /\ UNCHANGED <<now, cbvars, metvars, monvars, observers, sysdata>>

(* _attempt_recovery *)

\* TaskStart that does not count the attempt (line 446 left out)
M_TaskStart_no_count(r) ==
    /\ r \in BagToSet(tasks)
    /\ r.pc = "scheduled"
    /\ LET name == r.component
           attempts == components[name].recovery_attempts
           rest == tasks (-) SetToBag({r})
       IN  IF attempts > max_recovery_attempts
           THEN /\ components' = [components EXCEPT ![name].recovery_attempts = attempts]
                /\ tasks' = rest
           ELSE IF components[name].recovery_func
           THEN /\ components' = [components EXCEPT
                                     ![name].recovery_attempts = attempts,
                                     ![name].status = "RECOVERING"]
                /\ tasks' = rest (+) SetToBag({[r EXCEPT
                               !.pc = "recovering",
                               !.invoked = IF @ > max_recovery_attempts
                                           THEN @ ELSE @ + 1]})
           ELSE /\ components' = [components EXCEPT ![name].recovery_attempts = attempts]
                /\ tasks' = rest
    /\ UNCHANGED <<now, cbvars, metvars, monvars, obsvars, circuit_breakers, failure_history, execs, exec_obs>>

\* lines 445-459: the task runs up to "await recovery_func()" or returns
TaskStart(r) ==
    /\ r \in BagToSet(tasks)
    /\ r.pc = "scheduled"
    /\ LET name == r.component
           attempts == components[name].recovery_attempts + 1
           rest == tasks (-) SetToBag({r})
       IN  IF attempts > max_recovery_attempts
           THEN /\ components' = [components EXCEPT ![name].recovery_attempts = attempts]
                /\ tasks' = rest
           ELSE IF components[name].recovery_func
           THEN /\ components' = [components EXCEPT
                                     ![name].recovery_attempts = attempts,
                                     ![name].status = "RECOVERING"]
                /\ tasks' = rest (+) SetToBag({[r EXCEPT
                               !.pc = "recovering",
                               !.invoked = IF @ > max_recovery_attempts
                                           THEN @ ELSE @ + 1]})
           ELSE /\ components' = [components EXCEPT ![name].recovery_attempts = attempts]
                /\ tasks' = rest
    /\ UNCHANGED <<now, cbvars, metvars, monvars, obsvars, circuit_breakers, failure_history, execs, exec_obs>>

\* lines 461-463: recovery_func returned True
TaskRecovered(r) ==
    /\ r \in BagToSet(tasks)
    /\ r.pc = "recovering"
    /\ LET S1 == [Sys EXCEPT !.tasks = tasks (-) SetToBag({r})]
           S2 == report_component_recovery(S1, r.component, now)
       IN  Apply([S2 EXCEPT !.components[r.component].recovery_attempts = 0])
    /\ UNCHANGED <<now, cbvars, metvars, monvars, obsvars, circuit_breakers, execs, exec_obs>>

\* TaskNotRecovered that schedules the next attempt without the sleep
M_TaskNotRecovered_no_sleep(r) ==
    /\ r \in BagToSet(tasks)
    /\ r.pc = "recovering"
    /\ tasks' = (tasks (-) SetToBag({r}))
                    (+) SetToBag({[r EXCEPT !.pc = "sleeping", !.wake = now]})
    /\ UNCHANGED <<now, cbvars, metvars, monvars, obsvars, components,
                   circuit_breakers, failure_history, execs, exec_obs>>

\* lines 464-466 and 469-473: recovery_func returned False or raised; the task
\* sleeps failover_timeout
TaskNotRecovered(r) ==
    /\ r \in BagToSet(tasks)
    /\ r.pc = "recovering"
    /\ tasks' = (tasks (-) SetToBag({r}))
                    (+) SetToBag({[r EXCEPT !.pc = "sleeping",
                                            !.wake = now + failover_timeout]})
    /\ UNCHANGED <<now, cbvars, metvars, monvars, obsvars, components, circuit_breakers, failure_history,
                   execs, exec_obs>>

\* lines 467 and 474: the sleep is over, the next attempt is scheduled
TaskWake(r) ==
    /\ r \in BagToSet(tasks)
    /\ r.pc = "sleeping"
    /\ now >= r.wake
    /\ tasks' = (tasks (-) SetToBag({r}))
                    (+) SetToBag({[r EXCEPT !.pc = "scheduled", !.wake = None]})
    /\ UNCHANGED <<now, cbvars, metvars, monvars, obsvars, components, circuit_breakers, failure_history,
                   execs, exec_obs>>

\* lines 466 and 473 when the sleep ends later than the clock is followed:
\* past the last value of the clock every sleep is over
TaskWakeLate(r) ==
    /\ r \in BagToSet(tasks)
    /\ r.pc = "sleeping"
    /\ now = MaxTicks * ClockStep
    /\ now < r.wake
    /\ tasks' = (tasks (-) SetToBag({r}))
                    (+) SetToBag({[r EXCEPT !.pc = "scheduled", !.wake = None]})
    /\ UNCHANGED <<now, cbvars, metvars, monvars, obsvars, components, circuit_breakers, failure_history,
                   execs, exec_obs>>

(* execute_with_fallback *)

\* A call suspended in an await: of the primary inside the breaker
\* ("primary"), of a fallback ("fallback", the last of invoked), or of the
\* primary of an unregistered name ("direct"); e is the exception the primary
\* failed with.
ExecCall(component, pc, fallbacks, e, invoked) ==
    [ component |-> component, pc |-> pc, fallbacks |-> fallbacks,
      e |-> e, invoked |-> invoked ]

\* ExecTryFallback that raises the error of the last fallback tried
M_ExecTryFallback_raises_fallback_error(rest, r, k) ==
    IF k <= r.fallbacks
    THEN /\ execs' = rest (+) SetToBag({[r EXCEPT !.pc = "fallback",
                                                  !.invoked = Append(@, k)]})
         /\ UNCHANGED <<components, failure_history, tasks, exec_obs>>
    ELSE /\ Apply(report_component_failure(Sys, r.component, "UNKNOWN", "error", now))
         /\ execs' = rest
         /\ exec_obs' = ExecObs(r.component, "raised",
                                IF r.fallbacks > 0 THEN "FallbackError" ELSE r.e,
                                0, r.fallbacks, r.invoked)

\* lines 323-338, from fallback number k on, for the call r taken out of
\* execs (rest): fallback k is invoked, or all have failed and the failure is
\* reported and e raised
ExecTryFallback(rest, r, k) ==
    IF k <= r.fallbacks
    THEN /\ execs' = rest (+) SetToBag({[r EXCEPT !.pc = "fallback",
                                                  !.invoked = Append(@, k)]})
         /\ UNCHANGED <<components, failure_history, tasks, exec_obs>>
    ELSE /\ Apply(report_component_failure(Sys, r.component, "UNKNOWN", "error", now))
         /\ execs' = rest
         /\ exec_obs' = ExecObs(r.component, "raised", r.e, 0, r.fallbacks, r.invoked)

\* ExecBeginWithin in which a call the breaker rejects raises at once,
\* without the fallbacks and without the failure report
M_ExecBeginWithin_rejection_unreported(name, fallbacks, max_execs, max_history) ==
    /\ Suspended < max_execs
    /\ Len(failure_history) + Suspended < max_history
    /\ name \in DOMAIN components
           => components[name].total_requests + Suspended < MaxRequests
    /\ IF name \in DOMAIN circuit_breakers
       THEN LET g == call_gate(circuit_breakers[name], now)
            IN  /\ circuit_breakers' = [circuit_breakers EXCEPT ![name] = g.breaker]
                /\ IF g.rejected
                   THEN /\ exec_obs' = ExecObs(name, "raised", "CircuitOpenError",
                                               0, fallbacks, <<>>)
                        /\ UNCHANGED <<components, failure_history, tasks, execs>>
                   ELSE /\ execs' = execs (+) SetToBag({
                               ExecCall(name, "primary", fallbacks, "none", <<0>>)})
                        /\ UNCHANGED <<components, failure_history, tasks, exec_obs>>
       ELSE /\ execs' = execs (+) SetToBag({
                   ExecCall(name, "direct", fallbacks, "none", <<0>>)})
            /\ UNCHANGED <<components, circuit_breakers, failure_history,
                           tasks, exec_obs>>
    /\ UNCHANGED <<now, cbvars, metvars, monvars, obsvars>>

\* lines 311-315 (to the await inside circuit_breaker.call) or 341, while at
\* most max_execs calls overlap, the history is shorter than max_history and
\* the component has counted fewer than max_requests requests
ExecBeginBounded(name, fallbacks, max_execs, max_history, max_requests) ==
    /\ Suspended < max_execs
    /\ Len(failure_history) + Suspended < max_history
    /\ name \in DOMAIN components
           => components[name].total_requests + Suspended < max_requests
    /\ IF name \in DOMAIN circuit_breakers
       THEN LET g == call_gate(circuit_breakers[name], now)
            IN  /\ circuit_breakers' = [circuit_breakers EXCEPT ![name] = g.breaker]
                /\ IF g.rejected
                   THEN ExecTryFallback(execs,
                            ExecCall(name, "primary", fallbacks,
                                     "CircuitOpenError", <<>>), 1)
                   ELSE /\ execs' = execs (+) SetToBag({
                               ExecCall(name, "primary", fallbacks, "none", <<0>>)})
                        /\ UNCHANGED <<components, failure_history, tasks, exec_obs>>
       ELSE /\ execs' = execs (+) SetToBag({
                   ExecCall(name, "direct", fallbacks, "none", <<0>>)})
            /\ UNCHANGED <<components, circuit_breakers, failure_history,
                           tasks, exec_obs>>
    /\ UNCHANGED <<now, cbvars, metvars, monvars, obsvars>>

\* the same while the component has counted fewer than MaxRequests requests
ExecBeginWithin(name, fallbacks, max_execs, max_history) ==
    ExecBeginBounded(name, fallbacks, max_execs, max_history, MaxRequests)

ExecBegin(name, fallbacks) == ExecBeginWithin(name, fallbacks, MaxExecs, MaxHistory)

\* lines 315-317: the primary returned inside the breaker
ExecPrimaryReturn(r) ==
    /\ r \in BagToSet(execs)
    /\ r.pc = "primary"
    /\ circuit_breakers' = [circuit_breakers EXCEPT
                               ![r.component] = call_returned(@)]
    /\ components' = _update_component_health(components, r.component, TRUE, now)
    /\ execs' = execs (-) SetToBag({r})
    /\ exec_obs' = ExecObs(r.component, "returned", "primary_result", 0,
                           r.fallbacks, r.invoked)
    /\ UNCHANGED <<now, cbvars, metvars, monvars, obsvars, failure_history, tasks>>

\* lines 315 and 319-338: the primary raised inside the breaker
ExecPrimaryRaise(r) ==
    /\ r \in BagToSet(execs)
    /\ r.pc = "primary"
    /\ circuit_breakers' = [circuit_breakers EXCEPT
                               ![r.component] = call_raised(@, now)]
    /\ ExecTryFallback(execs (-) SetToBag({r}), [r EXCEPT !.e = "PrimaryError"], 1)
    /\ UNCHANGED <<now, cbvars, metvars, monvars, obsvars>>

\* ExecFallbackReturn that records the result of the fallback in the breaker
M_ExecFallbackReturn_in_breaker(r) ==
    /\ r \in BagToSet(execs)
    /\ r.pc = "fallback"
    /\ circuit_breakers' = [circuit_breakers EXCEPT
                               ![r.component] = call_returned(@)]
    /\ components' = _update_component_health(components, r.component, TRUE, now)
    /\ execs' = execs (-) SetToBag({r})
    /\ exec_obs' = ExecObs(r.component, "returned", "fallback_result",
                           r.invoked[Len(r.invoked)], r.fallbacks, r.invoked)
    /\ UNCHANGED <<now, cbvars, metvars, monvars, obsvars, failure_history, tasks>>

\* lines 326-328: the awaited fallback returned
ExecFallbackReturn(r) ==
    /\ r \in BagToSet(execs)
    /\ r.pc = "fallback"
    /\ components' = _update_component_health(components, r.component, TRUE, now)
    /\ execs' = execs (-) SetToBag({r})
    /\ exec_obs' = ExecObs(r.component, "returned", "fallback_result",
                           r.invoked[Len(r.invoked)], r.fallbacks, r.invoked)
    /\ UNCHANGED <<now, cbvars, metvars, monvars, obsvars, circuit_breakers, failure_history, tasks>>

\* lines 329-338: the awaited fallback raised
ExecFallbackRaise(r) ==
    /\ r \in BagToSet(execs)
    /\ r.pc = "fallback"
    /\ ExecTryFallback(execs (-) SetToBag({r}), r, r.invoked[Len(r.invoked)] + 1)
    /\ UNCHANGED <<now, cbvars, metvars, monvars, obsvars, circuit_breakers>>

\* ExecDirectDone that reports the failure of the primary
M_ExecDirectDone_reports(r) ==
    /\ r \in BagToSet(execs)
    /\ r.pc = "direct"
    /\ execs' = execs (-) SetToBag({r})
    /\ \E ok \in BOOLEAN :
           IF ok
           THEN /\ exec_obs' = ExecObs(r.component, "returned", "primary_result", 0,
                                       r.fallbacks, r.invoked)
                /\ UNCHANGED <<components, failure_history, tasks>>
           ELSE /\ exec_obs' = ExecObs(r.component, "raised", "PrimaryError", 0,
                                       r.fallbacks, r.invoked)
                /\ Apply(report_component_failure(Sys, r.component, "UNKNOWN",
                                                  "error", now))
    /\ UNCHANGED <<now, cbvars, metvars, monvars, obsvars, circuit_breakers>>

\* line 341: the primary of an unregistered name returned or raised
ExecDirectDone(r) ==
    /\ r \in BagToSet(execs)
    /\ r.pc = "direct"
    /\ execs' = execs (-) SetToBag({r})
    /\ \E ok \in BOOLEAN :
           exec_obs' = IF ok
                       THEN ExecObs(r.component, "returned", "primary_result", 0,
                                    r.fallbacks, r.invoked)
                       ELSE ExecObs(r.component, "raised", "PrimaryError", 0,
                                    r.fallbacks, r.invoked)
    /\ UNCHANGED <<now, cbvars, metvars, monvars, obsvars, components, circuit_breakers, failure_history, tasks>>

(* initialize, _health_monitoring_loop and close *)

\* components.items() in insertion order: the critical components first (the
\* order of _initialize_critical_components), then the names registered
\* later, test_component before other_component
ComponentOrder(comps) ==
    SelectSeq(<<"binance_api", "test_component", "other_component">>,
              LAMBDA n : n \in DOMAIN comps)

\* what "await health_check_func()" gives: a truthy or a falsy result, or an
\* exception
HealthResults == {"true", "false", "raise"}

\* MonitorNext in which the RuntimeError of the dict iterator ends the loop
M_MonitorNext_error_fatal(comps, m, t) ==
    LET order == ComponentOrder(comps)
        later == {i \in (m.pos + 1)..Len(order) : comps[order[i]].health_check}
    IN  IF Cardinality(DOMAIN comps) # m.size
        THEN MonitorTask("ended", 0, 0, None)
        ELSE IF later = {}
        THEN MonitorTask("sleeping", 0, 0, t + health_check_interval)
        ELSE MonitorTask("checking", CHOOSE i \in later : \A j \in later : i <= j,
                         m.size, None)

\* lines 415-417 and 436-440, from the entry after position m.pos on: the
\* monitor awaits the health check of the next component that has one; at the
\* end of the dict it sleeps, and so it does when the dict has grown since the
\* iteration started (RuntimeError of the dict iterator, caught at line 438)
MonitorNext(comps, m, t) ==
    LET order == ComponentOrder(comps)
        later == {i \in (m.pos + 1)..Len(order) : comps[order[i]].health_check}
    IN  IF Cardinality(DOMAIN comps) # m.size \/ later = {}
        THEN MonitorTask("sleeping", 0, 0, t + health_check_interval)
        ELSE MonitorTask("checking", CHOOSE i \in later : \A j \in later : i <= j,
                         m.size, None)

\* FallbackSystem.initialize: the monitor task is created and
\* _setup_backup_handlers registers the critical components with their
\* health checks and recovery callables
Initialize ==
    /\ monitor.pc = "none"
    /\ monitor' = MonitorTask("scheduled", 0, 0, None)
    /\ LET R == register_component(Sys, circuit_breakers, "binance_api", TRUE, TRUE)
       IN  /\ components' = R.components
           /\ circuit_breakers' = R.circuit_breakers
    /\ UNCHANGED <<now, cbvars, metvars, obsvars, closed, failure_history, execs, tasks, exec_obs>>

\* the first run of the monitor task: lines 412-420
MonitorStart ==
    /\ monitor.pc = "scheduled"
    /\ monitor' = MonitorNext(components,
                       MonitorTask("scheduled", 0, Cardinality(DOMAIN components), None),
                       now)
    /\ UNCHANGED <<now, cbvars, metvars, obsvars, closed, sysdata>>

\* lines 436 and 412-420: the sleep is over and the next cycle starts
MonitorWake ==
    /\ monitor.pc = "sleeping"
    /\ now >= monitor.wake
    /\ monitor' = MonitorNext(components,
                       MonitorTask("scheduled", 0, Cardinality(DOMAIN components), None),
                       now)
    /\ UNCHANGED <<now, cbvars, metvars, obsvars, closed, sysdata>>

\* MonitorChecked that also reports the recovery of a RECOVERING component
\* whose health check returned true
M_MonitorChecked_recovering(S, name, result, t) ==
    IF result = "true" /\ S.components[name].status \in {"FAILED", "RECOVERING"}
    THEN report_component_recovery(S, name, t)
    ELSE IF result = "false" /\ S.components[name].status = "ACTIVE"
    THEN report_component_failure(S, name, "UNKNOWN", "warning", t)
    ELSE S

\* MonitorChecked that reports a failure for every falsy result
M_MonitorChecked_any_status(S, name, result, t) ==
    IF result = "true" /\ S.components[name].status = "FAILED"
    THEN report_component_recovery(S, name, t)
    ELSE IF result = "false"
    THEN report_component_failure(S, name, "UNKNOWN", "warning", t)
    ELSE S

\* lines 420-434: what the monitor does with the result of the health check
\* of name (on_failure and on_recovery are None)
MonitorChecked(S, name, result, t) ==
    IF result = "true" /\ S.components[name].status = "FAILED"
    THEN report_component_recovery(S, name, t)
    ELSE IF result = "false" /\ S.components[name].status = "ACTIVE"
    THEN report_component_failure(S, name, "UNKNOWN", "warning", t)
    ELSE S

\* the observer the monitor's report for name awaits, given the result of
\* the health check: "none" when no report is made or no observer attached
MonitorObserver(comps, name, result) ==
    IF result = "true" /\ comps[name].status = "FAILED" /\ observers["on_recovery"]
    THEN "on_recovery"
    ELSE IF result = "false" /\ comps[name].status = "ACTIVE"
            /\ observers["on_failure"]
    THEN "on_failure"
    ELSE "none"

\* the health check the monitor awaits is over: lines 420-434, then the
\* iteration goes on, unless the report awaits its observer
MonitorCheckDone(result) ==
    /\ monitor.pc = "checking"
    /\ LET name == ComponentOrder(components)[monitor.pos]
           S == MonitorChecked(Sys, name, result, now)
       IN  /\ Len(S.failure_history) > Len(failure_history)
                  => Len(failure_history) + Suspended < MaxHistory
           /\ Apply(S)
           /\ monitor' = IF MonitorObserver(components, name, result) = "none"
                         THEN MonitorNext(S.components, monitor, now)
                         ELSE [monitor EXCEPT !.pc = "notifying"]
    /\ UNCHANGED <<now, cbvars, metvars, obsvars, closed, circuit_breakers, execs, exec_obs>>

\* the observer of the monitor's report returned or raised (lines 272-278 and
\* 297-303 inside lines 424-431): the report returns and the iteration goes on
MonitorNotified(result) ==
    /\ monitor.pc = "notifying"
    /\ result \in {"returned", "raised"}
    /\ monitor' = MonitorNext(components, monitor, now)
    /\ UNCHANGED <<now, cbvars, metvars, obsvars, closed, sysdata>>

\* lines 436 and 440 when the sleep ends later than the clock is followed:
\* past the last value of the clock every sleep is over
MonitorWakeLate ==
    /\ monitor.pc = "sleeping"
    /\ now = MaxTicks * ClockStep
    /\ now < monitor.wake
    /\ monitor' = MonitorNext(components,
                       MonitorTask("scheduled", 0, Cardinality(DOMAIN components), None),
                       now)
    /\ UNCHANGED <<now, cbvars, metvars, obsvars, closed, sysdata>>

\* FallbackSystem.close
Close ==
    /\ ~closed
    /\ closed' = TRUE
    /\ UNCHANGED <<now, cbvars, metvars, obsvars, monitor, sysdata>>

(* The metrics operations: none of them awaits, each runs to its end *)

\* get_system_health(): lines 346-386
GetSystemHealth ==
    /\ metrics_obs' = MetricsObs("get_system_health", "none",
           [ summary |-> get_system_health(components),
             recent_failures |->
                 Cardinality({i \in 1..Len(failure_history) :
                                 now - failure_history[i].timestamp < 3600}),
             uptime_percentage |->
                 _calculate_uptime_percentage(failure_history, now),
             component_details |->
                 [n \in DOMAIN components |->
                     [ status |-> components[n].status,
                       health_score |->
                           _calculate_component_health_score(components[n], now),
                       failover_count |-> components[n].failover_count ]] ])
    /\ UNCHANGED <<now, cbvars, sysdata, monvars, obsvars>>

\* GetFailureReport that drops the events older than the window
M_GetFailureReport_prunes(hours) ==
    /\ metrics_obs' = MetricsObs("get_failure_report", hours,
                                 get_failure_report(failure_history, hours, now))
    /\ failure_history' =
           SelectSeq(failure_history,
                     LAMBDA f : f.timestamp >= now - hours * 3600)
    /\ UNCHANGED <<now, cbvars, monvars, obsvars, components, circuit_breakers,
                   execs, tasks, exec_obs>>

\* get_failure_report(hours)
GetFailureReport(hours) ==
    /\ metrics_obs' = MetricsObs("get_failure_report", hours,
                                 get_failure_report(failure_history, hours, now))
    /\ UNCHANGED <<now, cbvars, sysdata, monvars, obsvars>>

\* _calculate_uptime_percentage()
CalculateUptimePercentage ==
    /\ metrics_obs' = MetricsObs("_calculate_uptime_percentage", "none",
                                 _calculate_uptime_percentage(failure_history, now))
    /\ UNCHANGED <<now, cbvars, sysdata, monvars, obsvars>>

\* _calculate_component_health_score(self.components[name])
CalculateComponentHealthScore(name) ==
    /\ name \in DOMAIN components
    /\ metrics_obs' = MetricsObs("_calculate_component_health_score", name,
                                 _calculate_component_health_score(components[name], now))
    /\ UNCHANGED <<now, cbvars, sysdata, monvars, obsvars>>

Init ==
    /\ now = 0
    /\ cb = CircuitBreaker(DefaultFailureThreshold, DefaultRecoveryTimeout,
                           DefaultSuccessThreshold)
    /\ cb_pending = 0
    /\ cb_obs = CbObs("none", "CLOSED", 0, 0)
    /\ SysInit

\* one component with its recovery chains: registration (which attaches the
\* recovery callable), reports and _attempt_recovery tasks
NextRecovery ==
    \/ Tick
    \/ RegisterComponent("binance_api")
    \/ Len(failure_history) < MaxChains /\ ReportFailure("binance_api")
    \/ ReportRecovery("binance_api")
    \/ \E r \in BagToSet(tasks) : TaskStart(r)
    \/ \E r \in BagToSet(tasks) : TaskRecovered(r)
    \/ \E r \in BagToSet(tasks) : TaskNotRecovered(r)
    \/ \E r \in BagToSet(tasks) : TaskWake(r)

SpecRecovery == Init /\ [][NextRecovery]_vars

\* the registry within one ClockStep: registrations and reports for
\* registered and unregistered names, and the recovery tasks up to their
\* first sleep
NextRegistry ==
    \/ \E name \in Names : RegisterComponent(name)
    \/ \E name \in Names : ReportFailure(name)
    \/ \E name \in Names : ReportRecovery(name)
    \/ \E r \in BagToSet(tasks) : TaskStart(r)
    \/ \E r \in BagToSet(tasks) : TaskRecovered(r)
    \/ \E r \in BagToSet(tasks) : TaskNotRecovered(r)

SpecRegistry == Init /\ [][NextRegistry]_vars

\* the failure history over time: reports for a registered and an
\* unregistered name, with the tasks the failure reports start (no recovery
\* callable is attached)
NextHistory ==
    \/ Tick
    \/ \E name \in Names : ReportFailure(name)
    \/ \E name \in Names : ReportRecovery(name)
    \/ \E r \in BagToSet(tasks) : TaskStart(r)

SpecHistory == Init /\ [][NextHistory]_vars

\* guarded execution within one ClockStep: overlapping execute_with_fallback
\* calls for a registered name, with the tasks their failure reports start
\* (no recovery callable is attached)
NextExec ==
    \/ \E name \in CriticalComponents, fallbacks \in 0..MaxFallbacks : ExecBegin(name, fallbacks)
    \/ \E r \in BagToSet(execs) : ExecPrimaryReturn(r)
    \/ \E r \in BagToSet(execs) : ExecPrimaryRaise(r)
    \/ \E r \in BagToSet(execs) : ExecFallbackReturn(r)
    \/ \E r \in BagToSet(execs) : ExecFallbackRaise(r)
    \/ \E r \in BagToSet(tasks) : TaskStart(r)

SpecExec == Init /\ [][NextExec]_vars

-----------------------------------------------------------------------------
(* Claims about execute_with_fallback, checked under SpecExec *)

\* the fallbacks among the callables a call invoked, in the order invoked
FallbacksInvoked(invoked) == SelectSeq(invoked, LAMBDA k : k > 0)

\* the step ends the call r (suspended in the primary or in a fallback) with
\* the primary and every fallback failed
AllFailedStep(r) ==
    \/ ExecPrimaryRaise(r) /\ r.fallbacks = 0
    \/ ExecFallbackRaise(r) /\ r.invoked[Len(r.invoked)] = r.fallbacks

\* the step is a call for name with no fallbacks that the breaker rejects
RejectedNoFallbackStep(name) ==
    /\ ExecBegin(name, 0)
    /\ circuit_breakers[name].state = "OPEN"
    /\ TimeoutPending(circuit_breakers[name])

\* failure_history' is failure_history with one new unresolved event of type
\* UNKNOWN for name at its end
OneUnknownEventAppended(name) ==
    /\ Len(failure_history') = Len(failure_history) + 1
    /\ SubSeq(failure_history', 1, Len(failure_history)) = failure_history
    /\ LET ev == failure_history'[Len(failure_history')]
       IN  /\ ev.component = name
           /\ ev.failure_type = "UNKNOWN"
           /\ ~ev.resolved

\* C5: when a fallback of a call returns, the primary had failed (raised, or
\* was rejected by the breaker and not invoked), the fallbacks invoked are
\* exactly the first k of the list in list order, the call returns the result
\* of fallback k, the component's total_requests and successful_requests each
\* grow by 1, its consecutive_failures becomes 0 and failure_history is left
\* as it is.
C5_FirstFallbackWins ==
    [][ \A r \in BagToSet(execs) :
          ExecFallbackReturn(r) =>
             LET k == exec_obs'.by
                 c == r.component
             IN  /\ r.e \in {"PrimaryError", "CircuitOpenError"}
                 /\ (r.e = "PrimaryError") = (Head(r.invoked) = 0)
                 /\ exec_obs'.outcome = "returned"
                 /\ exec_obs'.value = "fallback_result"
                 /\ k \in 1..r.fallbacks
                 /\ FallbacksInvoked(exec_obs'.invoked) = [i \in 1..k |-> i]
                 /\ Len(exec_obs'.invoked) <= k + 1
                 /\ components'[c].total_requests = components[c].total_requests + 1
                 /\ components'[c].successful_requests =
                        components[c].successful_requests + 1
                 /\ components'[c].consecutive_failures = 0
                 /\ failure_history' = failure_history ]_vars

\* C5 witness: the breaker rejected the primary, the first fallback failed and
\* the call returned the result of the second, the component having failed before.
C5_Witness ==
    /\ exec_obs.outcome = "returned"
    /\ exec_obs.value = "fallback_result"
    /\ exec_obs.by > 1
    /\ exec_obs.invoked = [i \in 1..exec_obs.by |-> i]
    /\ circuit_breakers[exec_obs.component].state = "OPEN"
    /\ components[exec_obs.component].consecutive_failures = 0
    /\ failure_history # <<>>

\* C6: a call in which the primary and every fallback fail raises the
\* exception the primary failed with (the primary's own, or the breaker's
\* rejection) and appends exactly one event, unresolved and of type UNKNOWN,
\* for its component.
C6_AllFailedRaisesPrimary ==
    [][ /\ \A r \in BagToSet(execs) :
              AllFailedStep(r) =>
                  /\ exec_obs'.outcome = "raised"
                  /\ exec_obs'.value =
                         (IF r.pc = "primary" THEN "PrimaryError" ELSE r.e)
                  /\ exec_obs'.value \in {"PrimaryError", "CircuitOpenError"}
                  /\ OneUnknownEventAppended(r.component)
        /\ \A name \in DOMAIN circuit_breakers :
              RejectedNoFallbackStep(name) =>
                  /\ exec_obs'.outcome = "raised"
                  /\ exec_obs'.value = "CircuitOpenError"
                  /\ OneUnknownEventAppended(name) ]_vars

\* C6 witness: a call whose primary and two fallbacks were invoked and failed
\* has raised the primary's exception, and the last event is its report.
C6_Witness ==
    /\ exec_obs.outcome = "raised"
    /\ exec_obs.value = "PrimaryError"
    /\ exec_obs.fallbacks > 1
    /\ exec_obs.invoked = [i \in 1..(exec_obs.fallbacks + 1) |-> i - 1]
    /\ failure_history # <<>>
    /\ failure_history[Len(failure_history)].failure_type = "UNKNOWN"
    /\ failure_history[Len(failure_history)].component = exec_obs.component

\* C7: a call in which the primary and every fallback fail increases the
\* component's total_requests by exactly 1, leaves successful_requests and
\* increases consecutive_failures.
C7_AllFailedCountsRequest ==
    [][ \A r \in BagToSet(execs) :
          AllFailedStep(r) =>
             LET c == r.component
             IN  /\ components'[c].total_requests = components[c].total_requests + 1
                 /\ components'[c].successful_requests =
                        components[c].successful_requests
                 /\ components'[c].consecutive_failures >
                        components[c].consecutive_failures ]_vars

-----------------------------------------------------------------------------
(* Claims about the failure history, checked under SpecHistory *)

\* C8: a recovery report for a registered component with an unresolved event
\* marks the earliest unresolved event of that component resolved (at the
\* time of the report) and leaves every other event as it is; with no
\* unresolved event of the component it leaves failure_history as it is.
C8_RecoveryResolvesFirst ==
    [][ \A name \in DOMAIN components :
          ReportRecovery(name) =>
             IF Unresolved(name) = {}
             THEN failure_history' = failure_history
             ELSE \E i \in Unresolved(name) :
                     /\ \A j \in Unresolved(name) : i <= j
                     /\ Len(failure_history') = Len(failure_history)
                     /\ failure_history'[i] =
                            [failure_history[i] EXCEPT !.resolved = TRUE,
                                                       !.resolution_time = now]
                     /\ \A j \in 1..Len(failure_history) :
                            j # i => failure_history'[j] = failure_history[j] ]_vars

\* C8 witness: the first event of a registered component was resolved while a
\* later event of the same component was already there, which is still
\* unresolved, and an event of another name is untouched.
C8_Witness ==
    /\ Len(failure_history) = MaxHistory
    /\ \E i, j, k \in 1..Len(failure_history) :
          /\ i < j
          /\ failure_history[i].component \in DOMAIN components
          /\ failure_history[j].component = failure_history[i].component
          /\ failure_history[i].resolved
          /\ failure_history[i].resolution_time > failure_history[j].timestamp
          /\ ~failure_history[j].resolved
          /\ failure_history[k].component # failure_history[i].component
          /\ ~failure_history[k].resolved

-----------------------------------------------------------------------------
(* Claims about the registry, checked under SpecRegistry *)

\* C9: get_system_health reports HEALTHY exactly when no registered component
\* is FAILED.
C9_HealthyIffNoneFailed ==
    (get_system_health(components).overall_status = "HEALTHY")
        <=> (\A n \in DOMAIN components : components[n].status # "FAILED")

\* C9 witness: HEALTHY is reported with one component RECOVERING and another
\* neither ACTIVE nor FAILED.
C9_Witness ==
    /\ get_system_health(components).overall_status = "HEALTHY"
    /\ \E n, m \in DOMAIN components :
          /\ components[n].status = "RECOVERING"
          /\ components[m].status = "STANDBY"

-----------------------------------------------------------------------------
(* Claims about the recovery chains, checked under SpecRecovery *)

\* C10: no recovery chain invokes the recovery callable more than
\* max_recovery_attempts times.
C10_ChainBounded ==
    \A r \in BagToSet(tasks) : r.invoked <= max_recovery_attempts

\* C14: a failure report for any name appends exactly one event, unresolved
\* and of that name, at the end of failure_history; for a registered name the
\* component becomes FAILED with consecutive_failures one higher and every
\* other component is left as it is; for a name that is not registered no
\* component is created or changed.
C14_ReportAppendsOne ==
    [][ \A name \in Names :
          ReportFailure(name) =>
             /\ Len(failure_history') = Len(failure_history) + 1
             /\ SubSeq(failure_history', 1, Len(failure_history)) = failure_history
             /\ failure_history'[Len(failure_history')].component = name
             /\ ~failure_history'[Len(failure_history')].resolved
             /\ DOMAIN components' = DOMAIN components
             /\ \A n \in DOMAIN components :
                    IF n = name
                    THEN /\ components'[n].status = "FAILED"
                         /\ components'[n].consecutive_failures =
                                components[n].consecutive_failures + 1
                    ELSE components'[n] = components[n] ]_vars

\* C14 witness: a name that is not registered and a registered component
\* have both been reported, the component more than once.
C14_Witness ==
    /\ \E i \in 1..Len(failure_history) :
          failure_history[i].component \notin DOMAIN components
    /\ \E n \in DOMAIN components :
          /\ components[n].status = "FAILED"
          /\ components[n].consecutive_failures > 1
          /\ failure_history[Len(failure_history)].component = n
          /\ ~failure_history[Len(failure_history)].resolved

\* C25: when the callable of an attempt returns true the chain reports the
\* recovery (status ACTIVE, consecutive_failures 0, the first unresolved
\* event of the component resolved at that time), recovery_attempts becomes
\* 0 and the chain is over; when it returns false or raises, the chain
\* sleeps until failover_timeout later, changing nothing else, and when the
\* sleep is over it continues with exactly one attempt; every attempt first
\* increments recovery_attempts, and it sets the status RECOVERING and
\* awaits the callable only if the cap is not exceeded.
C25_AttemptOutcomes ==
    [][ \A r \in BagToSet(tasks) :
          LET c == r.component
              rest == tasks (-) SetToBag({r})
          IN  /\ TaskRecovered(r) =>
                    /\ components'[c].status = "ACTIVE"
                    /\ components'[c].consecutive_failures = 0
                    /\ components'[c].recovery_attempts = 0
                    /\ tasks' = rest
                    /\ Len(failure_history') = Len(failure_history)
                    /\ \A i \in 1..Len(failure_history) :
                           IF i \in Unresolved(c) /\ \A j \in Unresolved(c) : i <= j
                           THEN failure_history'[i] =
                                    [failure_history[i] EXCEPT
                                        !.resolved = TRUE, !.resolution_time = now]
                           ELSE failure_history'[i] = failure_history[i]
              /\ TaskNotRecovered(r) =>
                    /\ \E t \in BagToSet(tasks') :
                           /\ t.pc = "sleeping"
                           /\ t.wake = now + failover_timeout
                           /\ t.invoked = r.invoked
                           /\ tasks' = rest (+) SetToBag({t})
                    /\ components' = components
                    /\ failure_history' = failure_history
              /\ TaskWake(r) =>
                    /\ now >= r.wake
                    /\ \E t \in BagToSet(tasks') :
                           /\ t.pc = "scheduled"
                           /\ t.invoked = r.invoked
                           /\ tasks' = rest (+) SetToBag({t})
                    /\ components' = components
              /\ TaskStart(r) =>
                    /\ components'[c].recovery_attempts =
                           components[c].recovery_attempts + 1
                    /\ failure_history' = failure_history
                    /\ IF components'[c].recovery_attempts <= max_recovery_attempts
                          /\ components[c].recovery_func
                       THEN /\ components'[c].status = "RECOVERING"
                            /\ \E t \in BagToSet(tasks') :
                                   /\ t.pc = "recovering"
                                   /\ tasks' = rest (+) SetToBag({t})
                       ELSE /\ components'[c].status = components[c].status
                            /\ tasks' = rest ]_vars

\* C25 witness: after one chain has recovered the component (its event is
\* resolved), the second attempt of another chain, started after the sleep
\* that followed its failed first attempt, awaits the recovery callable.
C25_Witness ==
    /\ now >= failover_timeout
    /\ Len(failure_history) = MaxChains
    /\ failure_history[1].resolved
    /\ \E r \in BagToSet(tasks) :
          /\ r.pc = "recovering"
          /\ r.invoked = 2
          /\ components[r.component].status = "RECOVERING"
          /\ components[r.component].recovery_attempts = 2

-----------------------------------------------------------------------------
(* Termination of the recovery chains *)

\* the recovery chains of one component run to their end: the chains of
\* MaxChains failure reports made at any time, before and after the recovery
\* callable is attached, which succeed (and report the recovery) or fail and
\* sleep, with the sleeps that end past the last value of the clock
NextChains ==
    \/ Tick
    \/ RegisterComponent("binance_api")
    \/ Len(failure_history) < MaxChains /\ ReportFailure("binance_api")
    \/ \E r \in BagToSet(tasks) : TaskStart(r)
    \/ \E r \in BagToSet(tasks) : TaskRecovered(r)
    \/ \E r \in BagToSet(tasks) : TaskNotRecovered(r)
    \/ \E r \in BagToSet(tasks) : TaskWake(r)
    \/ \E r \in BagToSet(tasks) : TaskWakeLate(r)

\* the event loop runs every task that is ready, the recovery callable
\* returns or raises, time passes and every sleep ends
FairChains ==
    /\ WF_vars(Tick)
    /\ WF_vars(\E r \in BagToSet(tasks) : TaskStart(r))
    /\ WF_vars(\E r \in BagToSet(tasks) : TaskRecovered(r) \/ TaskNotRecovered(r))
    /\ WF_vars(\E r \in BagToSet(tasks) : TaskWake(r))
    /\ WF_vars(\E r \in BagToSet(tasks) : TaskWakeLate(r))

SpecChains == Init /\ [][NextChains]_vars /\ FairChains

\* the step ends a recovery chain
ChainEnds == BagCardinality(tasks') < BagCardinality(tasks)

-----------------------------------------------------------------------------
(* Claims about failure reports, checked under SpecHistory *)

\* C12: for a registered component without a recovery callable no step
\* changes recovery_attempts and no _attempt_recovery task of it runs.
C12_NoCallableNoRecovery ==
    [][ \A n \in DOMAIN components :
          ~components[n].recovery_func =>
             /\ components'[n].recovery_attempts = components[n].recovery_attempts
             /\ \A r \in BagToSet(tasks) : r.component = n => ~TaskStart(r) ]_vars

-----------------------------------------------------------------------------
(* The health monitor *)

\* the monitor with its component, whose status the failure reports made
\* from outside and the recovery tasks change, and the registration of a
\* second component while the monitor runs
NextMonitor ==
    \/ Tick
    \/ Initialize
    \/ MonitorStart
    \/ MonitorWake
    \/ \E result \in HealthResults : MonitorCheckDone(result)
    \/ RegisterComponent("test_component")
    \/ \E name \in CriticalComponents :
           Len(failure_history) < MaxChains /\ ReportFailure(name)
    \/ \E r \in BagToSet(tasks) : TaskStart(r)
    \/ \E r \in BagToSet(tasks) : TaskRecovered(r)

SpecMonitor == Init /\ [][NextMonitor]_vars

\* the monitor and close
NextShutdown ==
    \/ Tick
    \/ Initialize
    \/ MonitorStart
    \/ MonitorWake
    \/ \E result \in HealthResults : MonitorCheckDone(result)
    \/ Close
    \/ \E name \in CriticalComponents : ReportFailure(name)
    \/ \E r \in BagToSet(tasks) : TaskStart(r)
    \/ \E r \in BagToSet(tasks) : TaskRecovered(r)

SpecShutdown == Init /\ [][NextShutdown]_vars

\* C17: when a health check is over, a falsy result for an ACTIVE component
\* is reported as one failure of type UNKNOWN and severity warning (the
\* component becomes FAILED with consecutive_failures one higher), a truthy
\* result for a FAILED component is reported as a recovery (the component
\* becomes ACTIVE with consecutive_failures 0 and its first unresolved event
\* is resolved), and every other result, an exception included, leaves the
\* components and failure_history as they are.
C17_MonitorReactions ==
    [][ \A result \in HealthResults :
          MonitorCheckDone(result) =>
             LET name == ComponentOrder(components)[monitor.pos]
                 status == components[name].status
             IN  IF result = "false" /\ status = "ACTIVE"
                 THEN /\ OneUnknownEventAppended(name)
                      /\ failure_history'[Len(failure_history')].severity = "warning"
                      /\ components'[name].status = "FAILED"
                      /\ components'[name].consecutive_failures =
                             components[name].consecutive_failures + 1
                 ELSE IF result = "true" /\ status = "FAILED"
                 THEN /\ components'[name].status = "ACTIVE"
                      /\ components'[name].consecutive_failures = 0
                      /\ Len(failure_history') = Len(failure_history)
                      /\ \A i \in 1..Len(failure_history) :
                             IF i \in Unresolved(name)
                                /\ \A j \in Unresolved(name) : i <= j
                             THEN failure_history'[i] =
                                      [failure_history[i] EXCEPT
                                          !.resolved = TRUE,
                                          !.resolution_time = now]
                             ELSE failure_history'[i] = failure_history[i]
                 ELSE /\ components' = components
                      /\ failure_history' = failure_history ]_vars

\* C17 witness: the monitor has reported a failure of a component (so it had
\* found it ACTIVE) whose earlier failure is resolved, and is in its next
\* check or sleep.
C17_Witness ==
    /\ monitor.pc \in {"checking", "sleeping"}
    /\ \E i, j \in 1..Len(failure_history) :
          /\ i < j
          /\ failure_history[i].resolved
          /\ failure_history[j].component = failure_history[i].component
          /\ failure_history[j].severity = "warning"
          /\ failure_history[j].failure_type = "UNKNOWN"
          /\ ~failure_history[j].resolved
          /\ components[failure_history[j].component].status
                 \in {"FAILED", "RECOVERING"}

\* the step invokes a health-check callable
MonitorInvokes == monitor'.pc = "checking" /\ monitor' # monitor

\* the step is the monitor making a failure or a recovery report
MonitorReports ==
    /\ \E result \in HealthResults : MonitorCheckDone(result)
    /\ components' # components \/ failure_history' # failure_history

\* C13: once close has returned the monitor invokes no health-check callable
\* and makes no failure or recovery report.
C13_CloseStopsMonitor ==
    [][ closed => (~MonitorInvokes /\ ~MonitorReports) ]_vars

-----------------------------------------------------------------------------
(* The observers *)

\* reports and failovers called from outside for a registered and an
\* unregistered name, with observers attached along the way, which return or
\* raise; no recovery callable is attached
NextObservers ==
    \/ \E o \in Observers : SetObserver(o)
    \/ \E name \in Names : Len(failure_history) < MaxChains /\ ReportFailure(name)
    \/ \E name \in Names : ReportRecovery(name)
    \/ \E name \in Names : TriggerFailover(name)
    \/ \E c \in BagToSet(notifying), result \in {"returned", "raised"} :
           ObserverDone(c, result)
    \/ \E r \in BagToSet(tasks) : TaskStart(r)

SpecObservers == Init /\ [][NextObservers]_vars

\* the step leaves one more call of op for name suspended in its observer
OneNotified(op, name) ==
    notifying' = notifying (+) SetToBag({Notification(op, name)})

\* C15: with an observer attached, a failure report, a recovery report and a
\* failover make their changes (event appended, component FAILED and a
\* recovery task scheduled; component ACTIVE and its first unresolved event
\* resolved; component STANDBY and failover_count incremented) before the
\* observer is awaited, and whether the observer then returns or raises, the
\* call returns to its caller without an exception and changes nothing more.
C15_ObserverErrorsContained ==
    [][ /\ \A name \in Names :
              (ReportFailure(name) /\ observers["on_failure"]) =>
                  /\ OneNotified("report_component_failure", name)
                  /\ Len(failure_history') = Len(failure_history) + 1
                  /\ failure_history'[Len(failure_history')].component = name
                  /\ name \in DOMAIN components =>
                         /\ components'[name].status = "FAILED"
                         /\ tasks' = tasks (+) SetToBag({RecoveryTask(name)})
        /\ \A name \in Names :
              (ReportRecovery(name) /\ observers["on_recovery"]) =>
                  /\ OneNotified("report_component_recovery", name)
                  /\ name \in DOMAIN components =>
                         /\ components'[name].status = "ACTIVE"
                         /\ \A i \in Unresolved(name) :
                                failure_history'[i].resolved
                                    <=> \A j \in Unresolved(name) : i <= j
        /\ \A name \in DOMAIN components :
              (TriggerFailover(name) /\ observers["on_failover"]
                                    /\ components[name].status = "ACTIVE") =>
                  /\ OneNotified("trigger_failover", name)
                  /\ components'[name].status = "STANDBY"
                  /\ components'[name].failover_count =
                         components[name].failover_count + 1
        /\ \A c \in BagToSet(notifying), result \in {"returned", "raised"} :
              ObserverDone(c, result) =>
                  /\ call_obs'.op = c.op
                  /\ call_obs'.outcome = "returned"
                  /\ components' = components
                  /\ failure_history' = failure_history
                  /\ tasks' = tasks ]_vars

\* C15 witness: a failover whose observer raised has returned, for a
\* component that was reported failed and recovered before, and the changes
\* of the three calls are there.
C15_Witness ==
    /\ call_obs.op = "trigger_failover"
    /\ call_obs.notified = "raised"
    /\ call_obs.outcome = "returned"
    /\ \E n \in DOMAIN components :
          /\ components[n].status = "STANDBY"
          /\ components[n].failover_count = 1
          /\ \E i \in 1..Len(failure_history) :
                /\ failure_history[i].component = n
                /\ failure_history[i].resolved

\* C24: a recovery report for a name with an unresolved event, registered or
\* not, marks the earliest unresolved event of that name resolved at the
\* time of the report. (The call is seen by its suspension in the on_recovery
\* observer; without an observer the call for a name that is not registered
\* changes nothing at all.)
C24_RecoveryResolvesAnyName ==
    [][ \A name \in Names :
          (ReportRecovery(name) /\ Unresolved(name) # {}) =>
             \E i \in Unresolved(name) :
                /\ \A j \in Unresolved(name) : i <= j
                /\ failure_history'[i].resolved
                /\ failure_history'[i].resolution_time = now ]_vars

-----------------------------------------------------------------------------
(* Registration *)

\* registrations of a registered and of a new name, with or without each
\* callable, between guarded calls without fallbacks that change the breaker
\* and the metrics and the recovery tasks their failure reports start
NextRegistration ==
    \/ \E name \in Names, health_check_func \in BOOLEAN, recovery_func \in BOOLEAN :
           RegisterComponentWith(name, health_check_func, recovery_func)
    \/ \E name \in CriticalComponents : ExecBegin(name, 0)
    \/ \E r \in BagToSet(execs) : ExecPrimaryReturn(r)
    \/ \E r \in BagToSet(execs) : ExecPrimaryRaise(r)
    \/ \E r \in BagToSet(tasks) : TaskStart(r)
    \/ \E r \in BagToSet(tasks) : TaskRecovered(r)
    \/ \E r \in BagToSet(tasks) : TaskNotRecovered(r)

SpecRegistration == Init /\ [][NextRegistration]_vars

\* C16: registering a new name adds a component in STANDBY with zero metrics
\* and a CLOSED breaker with thresholds 5/60/3 and leaves the others as they
\* are; registering a registered name leaves its status, metrics,
\* failover_count, recovery_attempts and every breaker as they are; a second
\* registration with the same arguments changes nothing; and the components
\* and the breakers have the same names in every state.
C16_RegisterIdempotent ==
    [][ /\ DOMAIN components = DOMAIN circuit_breakers
        /\ DOMAIN components' = DOMAIN circuit_breakers'
        /\ \A name \in Names, hc \in BOOLEAN, rf \in BOOLEAN :
              RegisterComponentWith(name, hc, rf) =>
                 /\ DOMAIN components' = DOMAIN components \cup {name}
                 /\ \A n \in DOMAIN components \ {name} :
                        /\ components'[n] = components[n]
                        /\ circuit_breakers'[n] = circuit_breakers[n]
                 /\ IF name \in DOMAIN components
                    THEN /\ components'[name] =
                                [components[name] EXCEPT
                                    !.health_check = @ \/ hc,
                                    !.recovery_func = @ \/ rf]
                         /\ circuit_breakers'[name] = circuit_breakers[name]
                    ELSE /\ components'[name].status = "STANDBY"
                         /\ components'[name].total_requests = 0
                         /\ components'[name].consecutive_failures = 0
                         /\ components'[name].failover_count = 0
                         /\ components'[name].recovery_attempts = 0
                         /\ circuit_breakers'[name].state = "CLOSED"
                         /\ circuit_breakers'[name].failure_count = 0
                         /\ circuit_breakers'[name].success_count = 0
                         /\ circuit_breakers'[name].failure_threshold = 5
                         /\ circuit_breakers'[name].recovery_timeout = 60
                         /\ circuit_breakers'[name].success_threshold = 3
                 /\ LET again == register_component(
                                     [ components |-> components',
                                       failure_history |-> failure_history',
                                       tasks |-> tasks' ],
                                     circuit_breakers', name, hc, rf)
                    IN  /\ again.components = components'
                        /\ again.circuit_breakers = circuit_breakers' ]_vars

\* C16 witness: a new name is registered, and a component was given its
\* recovery callable by a registration made after a guarded call had failed
\* and the recovery task of that failure had run: it is still FAILED with its
\* metrics and its breaker's count.
C16_Witness ==
    /\ "test_component" \in DOMAIN components
    /\ components["test_component"].status = "STANDBY"
    /\ tasks = EmptyBag
    /\ Len(failure_history) = 1
    /\ \E n \in CriticalComponents :
          /\ components[n].recovery_func
          /\ components[n].status = "FAILED"
          /\ components[n].consecutive_failures = 1
          /\ components[n].recovery_attempts = 1
          /\ circuit_breakers[n].failure_count = 1

\* C18: trigger_failover never changes failure_history, the breakers or the
\* recovery tasks; for an ACTIVE component it sets STANDBY, increments
\* failover_count by 1, leaves the metrics and recovery_attempts and awaits
\* on_failover once when one is attached; for a registered component in
\* another status it changes nothing, notifies nobody and returns; for a name
\* that is not registered it raises ValueError and changes nothing.
C18_FailoverOnlyWhenActive ==
    [][ \A name \in Names :
          TriggerFailover(name) =>
             /\ failure_history' = failure_history
             /\ circuit_breakers' = circuit_breakers
             /\ tasks' = tasks
             /\ IF name \notin DOMAIN components
                THEN /\ call_obs'.outcome = "ValueError"
                     /\ components' = components
                     /\ notifying' = notifying
                ELSE IF components[name].status = "ACTIVE"
                THEN /\ components' =
                            [components EXCEPT ![name] =
                                [@ EXCEPT !.status = "STANDBY",
                                          !.failover_count = @ + 1]]
                     /\ IF observers["on_failover"]
                        THEN OneNotified("trigger_failover", name)
                        ELSE /\ notifying' = notifying
                             /\ call_obs'.outcome = "returned"
                ELSE /\ components' = components
                     /\ notifying' = notifying
                     /\ call_obs'.outcome = "returned" ]_vars

\* C18 witness: a component has been failed over twice and is in STANDBY,
\* an on_failover observer is attached, and the last failover, called for a
\* name that is not registered, raised.
C18_Witness ==
    /\ call_obs = CallObs("trigger_failover", "test_component", "ValueError", "none")
    /\ "test_component" \notin DOMAIN components
    /\ observers["on_failover"]
    /\ \E n \in DOMAIN components :
          /\ components[n].status = "STANDBY"
          /\ components[n].failover_count = 2

-----------------------------------------------------------------------------
(* Execution for a name that is not registered *)

\* calls for a name that has no breaker, with and without fallbacks,
\* overlapping with guarded calls without fallbacks for a registered name
NextDirect ==
    \/ \E name \in Names \ CriticalComponents, fallbacks \in 0..MaxFallbacks :
           ExecBegin(name, fallbacks)
    \/ \E name \in CriticalComponents : ExecBegin(name, 0)
    \/ \E r \in BagToSet(execs) : ExecPrimaryReturn(r)
    \/ \E r \in BagToSet(execs) : ExecPrimaryRaise(r)
    \/ \E r \in BagToSet(execs) : ExecDirectDone(r)
    \/ \E r \in BagToSet(tasks) : TaskStart(r)

SpecDirect == Init /\ [][NextDirect]_vars

\* the step leaves the registry, the breakers, the history and the tasks alone
RegistryUntouched ==
    /\ components' = components
    /\ circuit_breakers' = circuit_breakers
    /\ failure_history' = failure_history
    /\ tasks' = tasks

\* C19: a call for a name without a breaker invokes the primary and nothing
\* else, and when the primary is over the call ends with the primary's result
\* or exception, whatever fallbacks it was given; neither step changes a
\* component, a breaker, failure_history or the tasks.
C19_UnregisteredRunsDirect ==
    [][ /\ \A name \in Names \ DOMAIN circuit_breakers, fallbacks \in 0..MaxFallbacks :
              ExecBegin(name, fallbacks) =>
                  /\ \E c \in BagToSet(execs') :
                         /\ c.component = name
                         /\ c.invoked = <<0>>
                         /\ execs' = execs (+) SetToBag({c})
                  /\ exec_obs' = exec_obs
                  /\ RegistryUntouched
        /\ \A r \in BagToSet(execs) :
              (r.component \notin DOMAIN circuit_breakers /\ ExecDirectDone(r)) =>
                  /\ execs' = execs (-) SetToBag({r})
                  /\ exec_obs'.component = r.component
                  /\ exec_obs'.invoked = <<0>>
                  /\ exec_obs'.by = 0
                  /\ \/ exec_obs'.outcome = "returned"
                        /\ exec_obs'.value = "primary_result"
                     \/ exec_obs'.outcome = "raised"
                        /\ exec_obs'.value = "PrimaryError"
                  /\ RegistryUntouched ]_vars

\* C19 witness: a call for a name that is not registered, given MaxFallbacks
\* fallbacks, has raised the primary's exception after invoking the primary
\* only, while the registered component has failures on record.
C19_Witness ==
    /\ exec_obs = ExecObs("test_component", "raised", "PrimaryError", 0,
                          MaxFallbacks, <<0>>)
    /\ "test_component" \notin DOMAIN circuit_breakers
    /\ failure_history # <<>>
    /\ \A i \in 1..Len(failure_history) :
          failure_history[i].component # "test_component"

-----------------------------------------------------------------------------
(* The uptime percentage *)

\* no metrics operation has been called so far
NoMetricsYet == metrics_obs.op = "none"

\* the failure history over time with the uptime computed from it: failure
\* reports for a registered and an unregistered name and recovery reports
\* for a name with an unresolved event, made by a caller that does not yield
\* to the event loop (no observer is attached, so no report suspends, and the
\* tasks the failure reports create stay scheduled), up to a state in which
\* _calculate_uptime_percentage is called
NextUptime ==
    \/ NoMetricsYet /\ Tick
    \/ \E name \in Names : NoMetricsYet /\ ReportFailureWithin(name, MaxEvents)
    \/ \E name \in Names :
           NoMetricsYet /\ Unresolved(name) # {} /\ ReportRecovery(name)
    \/ CalculateUptimePercentage

SpecUptime == Init /\ [][NextUptime]_vars

\* C21: a call of _calculate_uptime_percentage returns 100 whenever
\* failure_history is empty, and in every state its result is at least 0 and
\* at most 100.
C21_UptimeInRange ==
    metrics_obs.op = "_calculate_uptime_percentage" =>
        LET result == metrics_obs.result
        IN  /\ failure_history = <<>> => result = Ratio(100, 1)
            /\ result.den > 0
            /\ RatioLeq(Ratio(0, 1), result)
            /\ RatioLeq(result, Ratio(100, 1))

\* C21 witness: the uptime was computed as 0 from a history whose windows
\* add up to more downtime than the time since the first event.
C21_Witness ==
    /\ metrics_obs.op = "_calculate_uptime_percentage"
    /\ metrics_obs.result = Ratio(0, 1)
    /\ failure_history # <<>>
    /\ metrics_obs.result = _calculate_uptime_percentage(failure_history, now)
    /\ LET first_event == FirstEvent(failure_history)
           downtime == DowntimeWalk(SortedByTimestamp(failure_history), 1, 0, None)
       IN  downtime > now - first_event /\ now > first_event

-----------------------------------------------------------------------------
(* The metrics operations *)

\* the windows get_failure_report is called with: the default and an empty one
ReportHours == {0, 24}

\* one component in use (failure reports, recovery reports when an event is
\* unresolved, the recovery tasks without a recovery callable, guarded calls
\* that return, the clock) up to a state in which the metrics operations are
\* called, once or several times in a row
NextMetrics ==
    \/ NoMetricsYet /\ Tick
    \/ GetSystemHealth
    \/ \E hours \in ReportHours : GetFailureReport(hours)
    \/ CalculateUptimePercentage
    \/ \E name \in Names : CalculateComponentHealthScore(name)
    \/ \E name \in CriticalComponents :
           NoMetricsYet /\ Len(failure_history) < MaxChains /\ ReportFailure(name)
    \/ \E name \in CriticalComponents :
           NoMetricsYet /\ Unresolved(name) # {} /\ ReportRecovery(name)
    \/ \E name \in CriticalComponents :
           /\ NoMetricsYet
           /\ components[name].total_requests + Suspended < MaxScored
           /\ ExecBegin(name, 0)
    \/ \E r \in BagToSet(execs) : NoMetricsYet /\ ExecPrimaryReturn(r)
    \/ \E r \in BagToSet(tasks) : NoMetricsYet /\ TaskStart(r)

SpecMetrics == Init /\ [][NextMetrics]_vars

\* the step is a call of a metrics operation, told by its record: under
\* SpecMetrics no other step ends in a state with a call on record
MetricsCalled == metrics_obs'.op # "none"

\* C22: a call of get_system_health, get_failure_report,
\* _calculate_uptime_percentage or _calculate_component_health_score leaves
\* every component, every breaker, failure_history, the suspended calls and
\* the recovery tasks as they are.
C22_MetricsOnlyRead ==
    [][ MetricsCalled =>
           /\ components' = components
           /\ circuit_breakers' = circuit_breakers
           /\ failure_history' = failure_history
           /\ execs' = execs
           /\ tasks' = tasks ]_vars

\* C22 witness: get_failure_report was called with a window that leaves out
\* an event of the history, which is still there with its resolved flag, on
\* a component that has requests, failures and a recovery on record.
C22_Witness ==
    /\ metrics_obs.op = "get_failure_report"
    /\ metrics_obs.result.total_failures < Len(failure_history)
    /\ failure_history # <<>>
    /\ failure_history[1].resolved
    /\ \E n \in DOMAIN components :
          /\ components[n].total_requests > 0
          /\ components[n].status = "FAILED"

(* The monitoring loop goes on for ever *)

\* the monitor with observers attached, a registration and a failure report
\* made while it is suspended; the recovery tasks the reports schedule are not
\* followed
NextMonitorLive ==
    \/ Tick
    \/ Initialize
    \/ MonitorStart
    \/ MonitorWake
    \/ MonitorWakeLate
    \/ \E result \in HealthResults : MonitorCheckDone(result)
    \/ \E result \in {"returned", "raised"} : MonitorNotified(result)
    \/ \E o \in {"on_failure", "on_recovery"} : SetObserver(o)
    \/ RegisterComponent("test_component")
    \/ \E name \in CriticalComponents :
           Len(failure_history) < MaxChains - 1 /\ ReportFailure(name)

\* the event loop runs every task that is ready, every awaited callable of
\* the monitor ends, and time passes
FairMonitor ==
    /\ WF_vars(Tick)
    /\ WF_vars(MonitorStart)
    /\ WF_vars(MonitorWake)
    /\ WF_vars(MonitorWakeLate)
    /\ WF_vars(\E result \in HealthResults : MonitorCheckDone(result))
    /\ WF_vars(\E result \in {"returned", "raised"} : MonitorNotified(result))

SpecMonitorLive == Init /\ [][NextMonitorLive]_vars /\ FairMonitor

\* C26: the monitoring loop is never fatal. Whatever the health check, the
\* observer or the report raises and whatever other tasks do meanwhile, a
\* cycle that is running ends in the sleep of health_check_interval, and a
\* sleeping loop starts another cycle: the next cycle always eventually starts.
C26_MonitorNeverEnds ==
    /\ (monitor.pc \in {"scheduled", "checking", "notifying"})
           ~> (monitor.pc = "sleeping" /\ monitor.wake = now + health_check_interval)
    /\ (monitor.pc = "sleeping") ~> (monitor.pc = "checking")
    /\ [](monitor.pc # "ended")

\* the monitor sleeps again after a later cycle, with a component registered
\* meanwhile, an observer attached and an event resolved
C26_Witness ==
    /\ monitor.pc = "sleeping"
    /\ "test_component" \in DOMAIN components
    /\ monitor.wake > health_check_interval
    /\ \E e \in 1..Len(failure_history) : failure_history[e].resolved
    /\ observers["on_recovery"]

(* The health checks of one cycle *)

\* register_component for one more name, after test_component: the dict
\* keeps the names in the order they were added, which ComponentOrder lists
RegisterLater ==
    /\ "test_component" \in DOMAIN components
    /\ RegisterComponent("other_component")

\* the monitor, registrations and a failure report; every registration
\* attaches a health check, so the entries the iteration started with have
\* had theirs since then
NextMonitorCycle ==
    \/ Tick
    \/ Initialize
    \/ MonitorStart
    \/ MonitorWake
    \/ \E result \in HealthResults : MonitorCheckDone(result)
    \/ RegisterComponent("test_component")
    \/ RegisterLater
    \/ \E name \in CriticalComponents :
           Len(failure_history) < MaxChains - 1 /\ ReportFailure(name)

SpecMonitorCycle == Init /\ [][NextMonitorCycle]_vars

\* C27: in each cycle the health check of every component that had one when
\* the cycle started is invoked exactly once, also when register_component
\* adds a name while a health check of the cycle is suspended: the checks are
\* taken in the order of the dict without skipping one, and when the cycle
\* ends in its sleep no entry the iteration started with is left unchecked.
C27_EveryCheckOncePerCycle ==
    [][ monitor.pc = "checking" =>
          LET order == ComponentOrder(components')
              Skipped(from, to) ==
                  {i \in (from + 1)..(to - 1) : components'[order[i]].health_check}
          IN  /\ monitor'.pc = "checking" /\ monitor' # monitor =>
                     /\ monitor'.pos > monitor.pos
                     /\ Skipped(monitor.pos, monitor'.pos) = {}
              /\ monitor'.pc = "sleeping" =>
                     Skipped(monitor.pos, monitor.size + 1) = {} ]_vars

(* The breaker of a component rejects the call *)

\* guarded calls on a registered name, one after the other, with no fallback
\* or MaxFallbacks of them, of which at most MaxScored succeed, and the clock
NextRejection ==
    \/ Tick
    \/ \E name \in CriticalComponents, fallbacks \in {0, MaxFallbacks} :
           ExecBeginWithin(name, fallbacks, 1, MaxFailing)
    \/ \E r \in BagToSet(execs) :
           components[r.component].total_requests < MaxScored /\ ExecPrimaryReturn(r)
    \/ \E r \in BagToSet(execs) : ExecPrimaryRaise(r)
    \/ \E r \in BagToSet(execs) :
           components[r.component].total_requests < MaxScored /\ ExecFallbackReturn(r)
    \/ \E r \in BagToSet(execs) : ExecFallbackRaise(r)

SpecRejection == Init /\ [][NextRejection]_vars

\* the breaker is OPEN and its recovery_timeout has not elapsed
Rejecting(b) ==
    b.state = "OPEN" /\ now - b.last_failure_time < b.recovery_timeout

\* the step ends a call on name as a raised primary is handled: one event
\* appended, FAILED, one more consecutive failure, one recovery attempt
\* started, and e raised to the caller after the fallbacks in invoked
FailedWith(name, e, fallbacks, invoked) ==
    /\ failure_history' =
           Append(failure_history, FailureEvent(name, "UNKNOWN", now, "error"))
    /\ components' = [components EXCEPT ![name] =
           [@ EXCEPT !.status = "FAILED",
                     !.consecutive_failures = components[name].consecutive_failures + 1]]
    /\ tasks' = tasks (+) SetToBag({RecoveryTask(name)})
    /\ exec_obs' = ExecObs(name, "raised", e, 0, fallbacks, invoked)

\* C28: when the breaker of the component rejects the primary, the primary is
\* not invoked and the breaker is left as it is; the fallbacks are tried in
\* order, and when there is none or the last has raised the call ends as for
\* a raised primary, raising the rejection error. failure_threshold failing
\* calls in a row leave the breaker OPEN, so the call that follows before
\* recovery_timeout has elapsed is one of these.
C28_RejectionFallsBack ==
    /\ [][ \A name \in CriticalComponents, fallbacks \in {0, MaxFallbacks} :
              /\ Rejecting(circuit_breakers[name])
              /\ ExecBeginWithin(name, fallbacks, 1, MaxFailing)
              => /\ circuit_breakers' = circuit_breakers
                 /\ IF fallbacks = 0
                    THEN /\ execs' = execs
                         /\ FailedWith(name, "CircuitOpenError", 0, <<>>)
                    ELSE /\ execs' = execs (+) SetToBag({
                                ExecCall(name, "fallback", fallbacks,
                                         "CircuitOpenError", <<1>>)})
                         /\ UNCHANGED <<components, failure_history, tasks, exec_obs>>
          ]_vars
    /\ [][ \A r \in BagToSet(execs) :
              r.e = "CircuitOpenError" /\ ExecFallbackRaise(r)
              => LET k == r.invoked[Len(r.invoked)]
                 IN  /\ r.invoked = [i \in 1..k |-> i]
                     /\ IF k < r.fallbacks
                        THEN /\ execs' = (execs (-) SetToBag({r})) (+) SetToBag({
                                    [r EXCEPT !.invoked = Append(@, k + 1)]})
                             /\ UNCHANGED <<components, failure_history, tasks,
                                            exec_obs, circuit_breakers>>
                        ELSE /\ execs' = execs (-) SetToBag({r})
                             /\ circuit_breakers' = circuit_breakers
                             /\ FailedWith(r.component, "CircuitOpenError",
                                           r.fallbacks, r.invoked)
          ]_vars
    /\ [](\A name \in CriticalComponents :
              /\ execs = EmptyBag
              /\ components[name].consecutive_failures
                     >= circuit_breakers[name].failure_threshold
              => circuit_breakers[name].state = "OPEN")

\* the call after failure_threshold failing calls without fallbacks was
\* rejected and reported
C28_Witness ==
    /\ exec_obs = ExecObs("binance_api", "raised", "CircuitOpenError", 0, 0, <<>>)
    /\ Len(failure_history) = DefaultFailureThreshold + 1
    /\ circuit_breakers["binance_api"].state = "OPEN"
    /\ circuit_breakers["binance_api"].failure_count = DefaultFailureThreshold
    /\ components["binance_api"].consecutive_failures = DefaultFailureThreshold + 1
    /\ components["binance_api"].status = "FAILED"
    /\ BagCardinality(tasks) = DefaultFailureThreshold + 1

(* The health of the system *)

\* up to three components, failure and recovery reports for the registered
\* ones and their recovery tasks, then get_system_health
NextHealth ==
    \/ NoMetricsYet /\ RegisterComponent("test_component")
    \/ NoMetricsYet /\ RegisterLater
    \/ \E name \in DOMAIN components :
           NoMetricsYet /\ Len(failure_history) < MaxHistory /\ ReportFailure(name)
    \/ \E name \in DOMAIN components :
           NoMetricsYet /\ Unresolved(name) # {} /\ ReportRecovery(name)
    \/ \E r \in BagToSet(tasks) : NoMetricsYet /\ TaskStart(r)
    \/ GetSystemHealth

SpecHealth == Init /\ [][NextHealth]_vars

\* C29: get_system_health gives health_score = active / total * 100 and,
\* when at least one component is FAILED, CRITICAL exactly when
\* failed / total > 0.5 and DEGRADED otherwise: exactly half of the
\* components FAILED is DEGRADED.
C29_HealthScoreAndStatus ==
    metrics_obs.op = "get_system_health" =>
        LET summary == metrics_obs.result.summary
            total == Cardinality(DOMAIN components)
            failed == Cardinality({n \in DOMAIN components :
                                      components[n].status = "FAILED"})
            active == Cardinality({n \in DOMAIN components :
                                      components[n].status = "ACTIVE"})
        IN  /\ summary.health_score.den > 0
            /\ summary.health_score.num * total
                   = active * 100 * summary.health_score.den
            /\ failed >= 1 =>
                   /\ summary.overall_status = "CRITICAL" <=> 2 * failed > total
                   /\ summary.overall_status = "DEGRADED" <=> 2 * failed <= total
            /\ 2 * failed = total /\ total > 0 => summary.overall_status = "DEGRADED"

\* get_system_health was called with exactly half of the components FAILED
\* and the other half ACTIVE
C29_Witness ==
    /\ metrics_obs.op = "get_system_health"
    /\ Cardinality(DOMAIN components) = 2
    /\ \E n, m \in DOMAIN components :
           components[n].status = "FAILED" /\ components[m].status = "ACTIVE"
    /\ metrics_obs.result.summary.overall_status = "DEGRADED"
    /\ metrics_obs.result.summary.health_score = Ratio(100, 2)

(* The windows of downtime *)

\* the resolved events of the sorted list that close a window: a window is
\* open before event k exactly when event k - 1 is unresolved, and it was
\* opened by the first event of the run of unresolved events that ends there
ClosingEvents(events) ==
    {k \in 2..Len(events) : events[k].resolved /\ ~events[k - 1].resolved}

WindowStart(events, k) ==
    LET j == CHOOSE j \in 1..(k - 1) :
                 /\ \A m \in j..(k - 1) : ~events[m].resolved
                 /\ j = 1 \/ events[j - 1].resolved
    IN  events[j].timestamp

\* the sum of resolution_time - window start over the closing events of K
RECURSIVE WindowsSum(_, _)
WindowsSum(events, K) ==
    IF K = {}
    THEN 0
    ELSE LET k == CHOOSE x \in K : TRUE
         IN  (events[k].resolution_time - WindowStart(events, k))
                 + WindowsSum(events, K \ {k})

\* C30: _calculate_uptime_percentage accumulates the downtime over one window
\* shared by all components. In timestamp order an unresolved event opens a
\* window at its timestamp if none is open, a resolved event closes the open
\* window adding its resolution_time minus the start of the window, a
\* resolved event met with no window open adds nothing, and a window left
\* open at the end adds nothing; the result is
\* (total_time - downtime) / total_time * 100 clamped to [0, 100], total_time
\* being the time since the earliest event.
C30_SharedDowntimeWindow ==
    [][ /\ metrics_obs' # metrics_obs
        /\ metrics_obs'.op = "_calculate_uptime_percentage"
        /\ failure_history # <<>>
        /\ now > FirstEvent(failure_history)
        => LET events == SortedByTimestamp(failure_history)
               total_time == now - FirstEvent(failure_history)
               downtime == WindowsSum(events, ClosingEvents(events))
               result == metrics_obs'.result
               percentage == Ratio((total_time - downtime) * 100, total_time)
           IN  /\ result.den > 0
               /\ IF downtime > total_time THEN result = Ratio(0, 1)
                  ELSE IF downtime < 0 THEN result = Ratio(100, 1)
                  ELSE result.num * percentage.den = percentage.num * result.den
      ]_vars

\* the uptime was computed from two unresolved events of one component
\* followed by a resolved event of another: one window, from the first
\* unresolved event to the resolution, and a resolved event met with no
\* window open
C30_Witness ==
    /\ metrics_obs.op = "_calculate_uptime_percentage"
    /\ metrics_obs.result = _calculate_uptime_percentage(failure_history, now)
    /\ Len(failure_history) = 4
    /\ failure_history[1].resolved
    /\ ~failure_history[2].resolved
    /\ ~failure_history[3].resolved
    /\ failure_history[4].resolved
    /\ failure_history[3].timestamp > failure_history[2].timestamp
    /\ failure_history[4].component # failure_history[2].component
    /\ metrics_obs.result = Ratio((now - failure_history[1].timestamp
                                      - (failure_history[4].resolution_time
                                            - failure_history[2].timestamp)) * 100,
                                  now - failure_history[1].timestamp)
    /\ RatioLess(Ratio(0, 1), metrics_obs.result)
    /\ RatioLess(metrics_obs.result, Ratio(100, 1))

(* The history and the registry only grow *)

\* registrations, failure and recovery reports for a registered and an
\* unregistered name, and the clock; the tasks the failure reports create
\* stay scheduled
NextGrowth ==
    \/ Tick
    \/ \E name \in Names : RegisterComponent(name)
    \/ \E name \in Names : Len(failure_history) < MaxChains /\ ReportFailure(name)
    \/ \E name \in Names : ReportRecovery(name)

SpecGrowth == Init /\ [][NextGrowth]_vars

\* C31: failure_history is append-only and the registry only grows. No step
\* removes or reorders an event, a resolved event stays resolved with the
\* resolution_time it got, resolution_time is set exactly at the step that
\* resolves the event, and no component or breaker is removed or replaced by
\* a fresh one.
C31_HistoryAndRegistryGrow ==
    /\ [][ /\ Len(failure_history') >= Len(failure_history)
           /\ \A i \in 1..Len(failure_history) :
                  LET old == failure_history[i]
                      new == failure_history'[i]
                  IN  /\ [new EXCEPT !.resolved = old.resolved,
                                     !.resolution_time = old.resolution_time] = old
                      /\ old.resolved =>
                             new.resolved /\ new.resolution_time = old.resolution_time
                      /\ ~old.resolved /\ new.resolved => new.resolution_time = now
                      /\ ~new.resolved => new.resolution_time = None
           /\ \A i \in (Len(failure_history) + 1)..Len(failure_history') :
                  /\ ~failure_history'[i].resolved
                  /\ failure_history'[i].resolution_time = None
         ]_vars
    /\ [][ /\ DOMAIN components \subseteq DOMAIN components'
           /\ DOMAIN circuit_breakers \subseteq DOMAIN circuit_breakers'
           /\ \A name \in Names :
                  name \in DOMAIN components /\ RegisterComponent(name)
                  => /\ circuit_breakers' = circuit_breakers
                     /\ components' = [components EXCEPT
                            ![name] = [@ EXCEPT !.health_check = TRUE,
                                                !.recovery_func = TRUE]]
         ]_vars

\* an event was resolved at a later time than it was recorded, more events
\* followed it, and a component with a record of its own was registered again
C31_Witness ==
    /\ Len(failure_history) >= 2
    /\ failure_history[1].resolved
    /\ failure_history[1].resolution_time > failure_history[1].timestamp
    /\ ~failure_history[2].resolved
    /\ "test_component" \in DOMAIN components
    /\ components["test_component"].status = "ACTIVE"
    /\ components["test_component"].recovery_func

(* The observer of a failure and the recovery chain the report starts *)

\* failure reports for a component with a recovery callable and on_failure
\* attached, the observer returning or raising, and the recovery tasks
NextNotifyOrder ==
    \/ RegisterComponent("binance_api")
    \/ SetObserver("on_failure")
    \/ \E name \in CriticalComponents :
           Len(failure_history) < MaxChains /\ ReportFailure(name)
    \/ \E c \in BagToSet(notifying), result \in {"returned", "raised"} :
           ObserverDone(c, result)
    \/ \E r \in BagToSet(tasks) : TaskStart(r)
    \/ \E r \in BagToSet(tasks) : TaskRecovered(r)
    \/ \E r \in BagToSet(tasks) : TaskNotRecovered(r)

SpecNotifyOrder == Init /\ [][NextNotifyOrder]_vars

\* C32: for a failure report on a component with a recovery callable,
\* on_failure is invoked before the recovery chain the report started invokes
\* the callable (the report reaches the await of the observer in the step
\* that creates the task, which is only scheduled then), and the report
\* returns without waiting for the callable: it can return whenever its
\* observer is done, whatever the tasks are doing, and its return leaves the
\* tasks alone.
C32_ObserverBeforeRecovery ==
    /\ [][ \A name \in CriticalComponents :
              /\ Len(failure_history') = Len(failure_history) + 1
              /\ failure_history'[Len(failure_history')].component = name
              /\ components[name].recovery_func
              /\ observers["on_failure"]
              => /\ OneNotified("report_component_failure", name)
                 /\ tasks' = tasks (+) SetToBag({RecoveryTask(name)})
                 /\ RecoveryTask(name).pc = "scheduled"
                 /\ RecoveryTask(name).invoked = 0
          ]_vars
    /\ [][ \A c \in BagToSet(notifying) :
              (\E result \in {"returned", "raised"} : ObserverDone(c, result))
              => tasks' = tasks /\ components' = components
          ]_vars
    /\ [](\A c \in BagToSet(notifying) : ENABLED ObserverDone(c, "returned"))

\* the report is still in its observer while the chain it started awaits the
\* recovery callable
C32_Witness ==
    /\ Notification("report_component_failure", "binance_api") \in BagToSet(notifying)
    /\ components["binance_api"].recovery_func
    /\ Len(failure_history) = 1
    /\ \E r \in BagToSet(tasks) : r.pc = "recovering" /\ r.invoked = 1

(* The resolved events of a name *)

\* C33: for every component name the resolved events of that name form a
\* prefix of the events of that name in the order of failure_history: no
\* resolved event of a name comes after an unresolved event of the same name.
C33_ResolvedArePrefix ==
    \A i, j \in 1..Len(failure_history) :
        /\ i < j
        /\ failure_history[i].component = failure_history[j].component
        /\ failure_history[j].resolved
        => failure_history[i].resolved

\* two events of a component were resolved one after the other, a third of
\* the same component is unresolved
C33_Witness ==
    /\ Len(failure_history) = 3
    /\ \A i \in 1..3 : failure_history[i].component = "binance_api"
    /\ failure_history[1].resolved
    /\ failure_history[2].resolved
    /\ failure_history[2].resolution_time > failure_history[1].resolution_time
    /\ ~failure_history[3].resolved

(* A failed component has an unresolved event *)

\* C34: a registered component whose status is FAILED has at least one
\* unresolved event in failure_history. (The converse is not claimed: a
\* component can be ACTIVE while unresolved events of it remain.)
C34_FailedHasUnresolved ==
    \A name \in DOMAIN components :
        components[name].status = "FAILED" => Unresolved(name) # {}

\* a component that was reported recovered and failed again: FAILED with one
\* event resolved and exactly one unresolved
C34_Witness ==
    \E name \in DOMAIN components :
        /\ components[name].status = "FAILED"
        /\ Cardinality(Unresolved(name)) = 1
        /\ \E i \in 1..Len(failure_history) :
               /\ failure_history[i].component = name
               /\ failure_history[i].resolved

(* The uptime of a history of one name *)

\* C35: when all events of failure_history are of one component name,
\* _calculate_uptime_percentage returns 100, however long the failures stayed
\* unresolved; a result below 100 needs an unresolved event of one name
\* followed in the list by a resolved event of another name.
C35_SingleNameUptime ==
    metrics_obs.op = "_calculate_uptime_percentage" =>
        LET result == metrics_obs.result
            events == 1..Len(failure_history)
        IN  /\ (\A i, j \in events :
                    failure_history[i].component = failure_history[j].component)
                => result.num = 100 * result.den
            /\ RatioLess(result, Ratio(100, 1))
                => \E i, j \in events :
                       /\ i < j
                       /\ ~failure_history[i].resolved
                       /\ failure_history[j].resolved
                       /\ failure_history[i].component # failure_history[j].component

\* the uptime of a history of one registered component was computed, with an
\* event that stayed unresolved for some time before it was resolved and a
\* later event still unresolved for some time
C35_Witness ==
    /\ metrics_obs.op = "_calculate_uptime_percentage"
    /\ metrics_obs.result = Ratio(100, 1)
    /\ Len(failure_history) >= 2
    /\ \A i \in 1..Len(failure_history) : failure_history[i].component = "binance_api"
    /\ failure_history[1].resolved
    /\ failure_history[1].resolution_time > failure_history[1].timestamp
    /\ ~failure_history[Len(failure_history)].resolved
    /\ now > failure_history[Len(failure_history)].timestamp

-----------------------------------------------------------------------------
(* A component whose recovery attempts are used up *)

\* Recovery chains of binance_api over the clock, recovery reports from
\* outside once the attempts are used up, and a HealthMonitor that is started
\* after a chain was abandoned: in every cycle its health check reports a
\* recovery of the FAILED component or a failure of the ACTIVE one.
NextExhausted ==
    \/ Tick
    \/ RegisterComponent("binance_api")
    \/ Len(failure_history) < MaxChains /\ ReportFailure("binance_api")
    \/ /\ components["binance_api"].recovery_attempts >= max_recovery_attempts
       /\ ReportRecovery("binance_api")
    \/ /\ components["binance_api"].recovery_attempts > max_recovery_attempts
       /\ tasks = EmptyBag
       /\ Initialize
    \/ MonitorStart
    \/ \E result \in HealthResults : MonitorCheckDone(result)
    \/ MonitorWake
    \/ MonitorWakeLate
    \/ \E r \in BagToSet(tasks) : TaskStart(r)
    \/ \E r \in BagToSet(tasks) : TaskRecovered(r)
    \/ \E r \in BagToSet(tasks) : TaskNotRecovered(r)
    \/ \E r \in BagToSet(tasks) : TaskWake(r)
    \/ \E r \in BagToSet(tasks) : TaskWakeLate(r)

SpecExhausted == Init /\ [][NextExhausted]_vars

\* recovery_attempts of the component is over the limit and none of its
\* attempts awaits the callable or sleeps
Exhausted(name) ==
    /\ components[name].recovery_attempts > max_recovery_attempts
    /\ \A r \in BagToSet(tasks) : r.component = name => r.pc = "scheduled"

\* C36: recovery_attempts of a component goes down only in the step of a
\* recovery attempt whose callable returned true, which sets it to 0 (never
\* in a recovery report or a health check); and once it is over
\* max_recovery_attempts with no attempt of the component awaiting the
\* callable or sleeping, it stays so in every later step: no attempt of the
\* component ever awaits the callable again, and every chain that starts
\* adds one to the counter and ends at once.
C36_ExhaustedStaysExhausted ==
    /\ [][ \A name \in DOMAIN components :
               components'[name].recovery_attempts < components[name].recovery_attempts
                   => /\ components'[name].recovery_attempts = 0
                      /\ \E r \in BagToSet(tasks) :
                             /\ r.component = name
                             /\ r.pc = "recovering"
                             /\ tasks' = tasks (-) SetToBag({r}) ]_vars
    /\ [][ \A name \in DOMAIN components :
               Exhausted(name) =>
                   /\ Exhausted(name)'
                   /\ \A r \in BagToSet(tasks) :
                          (r.component = name /\ TaskStart(r)) =>
                              /\ components'[name].recovery_attempts
                                     = components[name].recovery_attempts + 1
                              /\ tasks' = tasks (-) SetToBag({r}) ]_vars

\* the chain of a first failure report used up the attempts, the component
\* was reported recovered, and the chain of the failure reported after that
\* has ended without invoking the callable: the counter is two over the limit
C36_Witness ==
    /\ components["binance_api"].recovery_attempts = max_recovery_attempts + 2
    /\ tasks = EmptyBag
    /\ Len(failure_history) >= 2
    /\ failure_history[1].resolved
    /\ components["binance_api"].status = "FAILED"

(* A component left in RECOVERING *)

\* C37: a recovery attempt that gives up (the counter goes over
\* max_recovery_attempts) leaves the status of the component as it is, so a
\* component whose only chain used up its attempts, with no report since, is
\* RECOVERING; a step of the HealthMonitor on a RECOVERING component changes
\* neither the components nor failure_history, whatever the health check
\* returned; and the status of a RECOVERING component changes only to FAILED
\* with a new event of it appended (report_component_failure) or to ACTIVE
\* with last_success set to the time of the step (report_component_recovery).
C37_RecoveringIsLeft ==
    /\ [][ \A r \in BagToSet(tasks) :
               ( /\ TaskStart(r)
                 /\ components[r.component].recovery_attempts >= max_recovery_attempts )
                   => /\ components'[r.component].status
                             = components[r.component].status
                      /\ tasks' = tasks (-) SetToBag({r}) ]_vars
    /\ [][ \A name \in DOMAIN components :
               ( /\ Len(failure_history') = 1
                 /\ failure_history'[1].component = name
                 /\ ~failure_history'[1].resolved
                 /\ components'[name].recovery_func
                 /\ components'[name].recovery_attempts > max_recovery_attempts
                 /\ tasks' = EmptyBag )
                   => components'[name].status = "RECOVERING" ]_vars
    /\ [][ \A name \in DOMAIN components :
               components[name].status = "RECOVERING" =>
                   /\ monitor' # monitor =>
                          /\ components' = components
                          /\ failure_history' = failure_history
                   /\ components'[name].status # "RECOVERING" =>
                          \/ /\ components'[name].status = "FAILED"
                             /\ Len(failure_history') = Len(failure_history) + 1
                             /\ failure_history'[Len(failure_history')].component = name
                          \/ /\ components'[name].status = "ACTIVE"
                             /\ components'[name].last_success = now ]_vars

\* the only chain of the component has given up, the component is RECOVERING
\* with its event unresolved, and a cycle of the HealthMonitor started after
\* that is over
C37_Witness ==
    /\ components["binance_api"].status = "RECOVERING"
    /\ components["binance_api"].recovery_attempts = max_recovery_attempts + 1
    /\ tasks = EmptyBag
    /\ Len(failure_history) = 1
    /\ ~failure_history[1].resolved
    /\ monitor.pc = "sleeping"

-----------------------------------------------------------------------------
(* Guarded calls on a component that is not ACTIVE *)

\* Guarded calls for binance_api with and without fallbacks, next to failure
\* reports from outside and the start of their recovery attempts, the
\* recovery callable registered or not: the component is STANDBY, FAILED or
\* RECOVERING while the calls run.
NextGuarded ==
    \/ RegisterComponent("binance_api")
    \/ Len(failure_history) < MaxChains /\ ReportFailure("binance_api")
    \/ \E fallbacks \in {0, MaxFallbacks} : ExecBegin("binance_api", fallbacks)
    \/ \E r \in BagToSet(execs) : ExecPrimaryReturn(r)
    \/ \E r \in BagToSet(execs) : ExecPrimaryRaise(r)
    \/ \E r \in BagToSet(execs) : ExecFallbackReturn(r)
    \/ \E r \in BagToSet(execs) : ExecFallbackRaise(r)
    \/ \E r \in BagToSet(tasks) : TaskStart(r)

SpecGuarded == Init /\ [][NextGuarded]_vars

\* status, recovery_attempts and failure_history are the same after the step
SameStanding ==
    /\ failure_history' = failure_history
    /\ \A name \in DOMAIN components :
           /\ components'[name].status = components[name].status
           /\ components'[name].recovery_attempts = components[name].recovery_attempts

\* C38: the step in which a guarded call returns a result, of the primary or
\* of a fallback, changes neither the status nor recovery_attempts of any
\* component nor failure_history (so no event is resolved by it), whatever
\* the status of the component is; and the only step of a guarded call that
\* changes one of them is the one in which the call ends by raising.
C38_SuccessKeepsStanding ==
    /\ [][ \A r \in BagToSet(execs) :
               (ExecPrimaryReturn(r) \/ ExecFallbackReturn(r)) => SameStanding ]_vars
    /\ [][ ((execs' # execs \/ exec_obs' # exec_obs) /\ ~SameStanding)
               => exec_obs'.outcome = "raised" ]_vars

\* a fallback has just returned the result of a call on a RECOVERING component
\* with an unresolved event, after an earlier call had returned one too
C38_Witness ==
    /\ exec_obs.outcome = "returned"
    /\ exec_obs.value = "fallback_result"
    /\ components["binance_api"].status = "RECOVERING"
    /\ components["binance_api"].recovery_attempts > 0
    /\ components["binance_api"].successful_requests >= 2
    /\ Unresolved("binance_api") # {}

-----------------------------------------------------------------------------
(* Guarded calls while the primary is down *)

\* One guarded call for binance_api after the other, over the clock: the
\* primary raises whenever the breaker lets it run, and a fallback returns,
\* the first one or a later one after the earlier ones raised.
NextPrimaryDown ==
    \/ Tick
    \/ \E fallbacks \in 1..MaxFallbacks :
           ExecBeginBounded("binance_api", fallbacks, 1, MaxHistory, MaxFailing)
    \/ \E r \in BagToSet(execs) : ExecPrimaryRaise(r)
    \/ \E r \in BagToSet(execs) :
           r.invoked[Len(r.invoked)] < r.fallbacks /\ ExecFallbackRaise(r)
    \/ \E r \in BagToSet(execs) : ExecFallbackReturn(r)

SpecPrimaryDown == Init /\ [][NextPrimaryDown]_vars

\* C39: through guarded calls whose primary fails and whose fallback succeeds
\* the component keeps consecutive_failures = 0 and successful_requests =
\* total_requests, its status stays as constructed and no event is appended,
\* while the breaker counts every failure of the primary: between the calls it
\* is CLOSED with failure_count the number of calls as long as these are fewer
\* than failure_threshold, and OPEN from the failure_threshold-th call on; a
\* call that starts while the breaker is OPEN within recovery_timeout leaves
\* the breaker as it is and awaits the first fallback without invoking the
\* primary.
C39_FallbackSuccessOpensBreaker ==
    /\ [] LET component == components["binance_api"]
              breaker == circuit_breakers["binance_api"]
          IN  /\ component.consecutive_failures = 0
              /\ component.successful_requests = component.total_requests
              /\ component.status = ComponentState.status
              /\ failure_history = <<>>
              /\ execs = EmptyBag =>
                     IF component.total_requests < breaker.failure_threshold
                     THEN /\ breaker.state = "CLOSED"
                          /\ breaker.failure_count = component.total_requests
                     ELSE breaker.state = "OPEN"
    /\ [][ ( /\ execs = EmptyBag
             /\ execs' # EmptyBag
             /\ circuit_breakers["binance_api"].state = "OPEN"
             /\ TimeoutPending(circuit_breakers["binance_api"]) )
               => /\ circuit_breakers' = circuit_breakers
                  /\ \A r \in BagToSet(execs') :
                         r.pc = "fallback" /\ r.invoked = <<1>> ]_vars

\* after exactly failure_threshold calls, all answered by a fallback, the
\* breaker is OPEN and the next call, made within recovery_timeout, awaits its
\* first fallback with the primary skipped
C39_Witness ==
    LET component == components["binance_api"]
        breaker == circuit_breakers["binance_api"]
    IN  /\ component.total_requests = breaker.failure_threshold
        /\ component.successful_requests = breaker.failure_threshold
        /\ breaker.state = "OPEN"
        /\ breaker.failure_count = breaker.failure_threshold
        /\ TimeoutPending(breaker)
        /\ \E r \in BagToSet(execs) : r.pc = "fallback" /\ r.invoked = <<1>>

-----------------------------------------------------------------------------
(* The fields of the stand-alone breaker in each state, checked under SpecCB *)

\* C40: in every state of the breaker, with calls overlapping or not, CLOSED
\* implies success_count = 0 and failure_count < failure_threshold, and OPEN
\* implies that last_failure_time is set.
C40_BreakerStateFields ==
    /\ cb.state = "CLOSED" =>
           /\ cb.success_count = 0
           /\ cb.failure_count < cb.failure_threshold
    /\ cb.state = "OPEN" => cb.last_failure_time # None

\* the breaker was closed by the results returned in HALF_OPEN and a call
\* has raised since: CLOSED with one failure counted and its time kept
C40_Witness ==
    /\ cb.state = "CLOSED"
    /\ cb_obs.probe_successes = cb.success_threshold
    /\ cb.success_threshold > 1
    /\ cb_obs.last = "raised"
    /\ cb.failure_count = 1
    /\ cb.last_failure_time # None

====
